---- MODULE Spec2Model ----
(***************************************************************************)
(* A model of the resume screening pipeline: the Matcher (scores, matched  *)
(* skills, gaps, strengths), the Ranker (sort, ranks, explanations) and    *)
(* the Runner (the orchestration of one screening run and its status       *)
(* snapshots).                                                             *)
(*                                                                         *)
(* Text is a sequence of one-character strings (a skill, a degree, a job   *)
(* description) or, for formatted messages, a sequence of string tokens;   *)
(* lower(), strip(), split(), "in" and join() are computed on it.  Scores  *)
(* are exact rationals <<numerator, denominator>> in lowest terms: the     *)
(* program's doubles differ from them by rounding far below the 0.01       *)
(* tolerance the scores are compared with.  An Optional value is a         *)
(* sequence of length 0 (None) or 1.                                       *)
(***************************************************************************)
EXTENDS Integers, Sequences, FiniteSets, TLC

VARIABLES
    \* ---- Matcher: one call of MatcherAgent.match_candidate
    resume,               \* the ResumeData argument
    requirements,         \* the JobRequirements argument
    matchResult,          \* Optional: the MatchResult returned
    \* ---- Ranker: one call of RankerAgent.rank_candidates
    rankInput,            \* the list of MatchResults given to rank_candidates
    rankFlag,             \* its generate_explanations argument
    ranked,               \* Optional: the list of CandidateResults returned
    rankGen,              \* rank -> what the explanation generator did when asked
    \* ---- Runner: runs of ResumeScreeningRunner.process / process_from_text
    runs,                 \* run -> the arguments, locals and position of the call
    status,               \* runner instance -> Optional: its _status field
    \* ---- Validation: the checks of an upload (src/utils/validation.py)
    upload,               \* the list of payloads given to validate_pdf_files
    uploadCount,          \* the count given to validate_file_count
    pdfValidation,        \* Optional: the result of validate_pdf_files
    countValidation       \* Optional: the result of validate_file_count

matcherVars == <<resume, requirements, matchResult>>
rankerVars == <<rankInput, rankFlag, ranked, rankGen>>
runnerVars == <<runs, status>>
validatorVars == <<upload, uploadCount, pdfValidation, countValidation>>

None == <<>>
Some(x) == <<x>>

(***************************************************************************)
(* Bounds of the model.                                                    *)
(***************************************************************************)
\* total number of list items (skills, entries, phrases) of one matcher input
MaxItems == 4
\* longest list of MatchResults given to rank_candidates
MaxMatches == 3
\* largest batch of resumes given to one run
MaxResumes == 3
\* largest upload given to the validation
MaxUpload == 52

(***************************************************************************)
(* Text.                                                                   *)
(***************************************************************************)
\* str.lower() on the characters the inputs use
LowerChar(c) ==
    CASE c = "P" -> "p"
      [] c = "Y" -> "y"
      [] c = "S" -> "s"
      [] c = "Q" -> "q"
      [] c = "L" -> "l"
      [] c = "B" -> "b"
      [] c = "A" -> "a"
      [] c = "M" -> "m"
      [] c = "C" -> "c"
      [] c = "I" -> "i"
      [] c = "T" -> "t"
      [] OTHER -> c

Lower(s) == [i \in 1..Len(s) |-> LowerChar(s[i])]

IsSpace(c) == c \in {" ", "\t", "\n"}

RECURSIVE LStrip(_)
LStrip(s) == IF s # <<>> /\ IsSpace(Head(s)) THEN LStrip(Tail(s)) ELSE s

RECURSIVE RStrip(_)
RStrip(s) ==
    IF s # <<>> /\ IsSpace(s[Len(s)]) THEN RStrip(SubSeq(s, 1, Len(s) - 1)) ELSE s

\* str.strip()
Strip(s) == RStrip(LStrip(s))

\* the first whitespace-free run of s (s does not start with whitespace)
RECURSIVE FirstWord(_)
FirstWord(s) ==
    IF s = <<>> \/ IsSpace(Head(s)) THEN <<>> ELSE <<Head(s)>> \o FirstWord(Tail(s))

\* str.split(): the maximal whitespace-free runs, in order
RECURSIVE Split(_)
Split(s) ==
    LET t == LStrip(s)
        w == FirstWord(t)
    IN IF t = <<>> THEN <<>> ELSE <<w>> \o Split(SubSeq(t, Len(w) + 1, Len(t)))

\* word in text: text holds word as a contiguous run
Contains(text, word) ==
    \E i \in 0..(Len(text) - Len(word)) : SubSeq(text, i + 1, i + Len(word)) = word

\* sep.join(parts)
RECURSIVE Join(_, _)
Join(parts, sep) ==
    IF parts = <<>> THEN <<>>
    ELSE IF Len(parts) = 1 THEN parts[1]
    ELSE parts[1] \o sep \o Join(Tail(parts), sep)

Range(s) == {s[i] : i \in 1..Len(s)}

\* the subsequence of s of the elements satisfying Test, in order
RECURSIVE SelectIdx(_, _)
SelectIdx(s, keep) ==
    IF s = <<>> THEN <<>>
    ELSE (IF 1 \in keep THEN <<Head(s)>> ELSE <<>>)
         \o SelectIdx(Tail(s), {i - 1 : i \in keep \ {1}})

(***************************************************************************)
(* Exact rational arithmetic for the scores.                               *)
(***************************************************************************)
RECURSIVE GCD(_, _)
GCD(a, b) == IF b = 0 THEN a ELSE GCD(b, a % b)

\* n/d in lowest terms (n >= 0, d > 0)
Rat(n, d) == LET g == GCD(n, d) IN <<n \div g, d \div g>>

RatAdd(p, q) == Rat(p[1] * q[2] + q[1] * p[2], p[2] * q[2])
RatMul(p, q) == Rat(p[1] * q[1], p[2] * q[2])
RatLeq(p, q) == p[1] * q[2] <= q[1] * p[2]
RatLt(p, q) == p[1] * q[2] < q[1] * p[2]
RatMin(p, q) == IF RatLeq(p, q) THEN p ELSE q
\* |p - q| <= t
RatWithin(p, q, t) ==
    LET a == p[1] * q[2]
        b == q[1] * p[2]
        diff == IF a >= b THEN a - b ELSE b - a
    IN diff * t[2] <= t[1] * p[2] * q[2]

Hundred == Rat(100, 1)
Zero == Rat(0, 1)

(***************************************************************************)
(* Matcher (src/agents/matcher.py).                                        *)
(***************************************************************************)
SKILLS_WEIGHT == Rat(4, 10)
EXPERIENCE_WEIGHT == Rat(4, 10)
EDUCATION_WEIGHT == Rat(2, 10)

\* s.lower().strip()
Normalize(s) == Strip(Lower(s))

NormalizedSet(skills) == {Normalize(skills[i]) : i \in 1..Len(skills)}

compute_score_unweighted(skills_score, experience_score, education_score) ==
    Rat(skills_score[1] * experience_score[2] * education_score[2]
        + experience_score[1] * skills_score[2] * education_score[2]
        + education_score[1] * skills_score[2] * experience_score[2],
        3 * skills_score[2] * experience_score[2] * education_score[2])

compute_score(skills_score, experience_score, education_score) ==
    RatAdd(RatAdd(RatMul(skills_score, SKILLS_WEIGHT),
                  RatMul(experience_score, EXPERIENCE_WEIGHT)),
           RatMul(education_score, EDUCATION_WEIGHT))

compute_skills_score_per_listed(resume_skills, required_skills) ==
    IF required_skills = <<>> THEN Hundred
    ELSE LET resume_skills_lower == NormalizedSet(resume_skills)
             required_skills_lower == NormalizedSet(required_skills)
             matches == Cardinality(resume_skills_lower \cap required_skills_lower)
         IN RatMin(Hundred, RatMul(Rat(matches, Len(required_skills)), Hundred))

compute_skills_score(resume_skills, required_skills) ==
    IF required_skills = <<>> THEN Hundred
    ELSE LET resume_skills_lower == NormalizedSet(resume_skills)
             required_skills_lower == NormalizedSet(required_skills)
             matches == Cardinality(resume_skills_lower \cap required_skills_lower)
         IN RatMin(Hundred,
                   RatMul(Rat(matches, Cardinality(required_skills_lower)), Hundred))

\* exp.duration_months or 0
DurationOrZero(exp) ==
    IF exp.duration_months = None THEN 0 ELSE exp.duration_months[1]

RECURSIVE TotalMonths(_)
TotalMonths(experience) ==
    IF experience = <<>> THEN 0
    ELSE DurationOrZero(Head(experience)) + TotalMonths(Tail(experience))

compute_experience_score_uncapped(experience, min_years) ==
    IF min_years <= 0 THEN Hundred
    ELSE RatMul(RatMul(Rat(TotalMonths(experience), 12), <<1, min_years>>), Hundred)

compute_experience_score_months_as_years(experience, min_years) ==
    IF min_years <= 0 THEN Hundred
    ELSE LET total_years == Rat(TotalMonths(experience), 1)
         IN IF RatLeq(Rat(min_years, 1), total_years) THEN Hundred
            ELSE RatMin(Hundred,
                        RatMul(RatMul(total_years, <<1, min_years>>), Hundred))

compute_experience_score(experience, min_years) ==
    IF min_years <= 0 THEN Hundred
    ELSE LET total_years == Rat(TotalMonths(experience), 12)
         IN IF RatLeq(Rat(min_years, 1), total_years) THEN Hundred
            ELSE RatMin(Hundred,
                        RatMul(RatMul(total_years, <<1, min_years>>), Hundred))

\* f"{edu.degree} {edu.field or ''} {edu.institution}".lower()
EducationLine(edu) ==
    Lower(edu.degree \o <<" ">>
          \o (IF edu.field = None THEN <<>> ELSE edu.field[1])
          \o <<" ">> \o edu.institution)

EducationText(education) ==
    Join([i \in 1..Len(education) |-> EducationLine(education[i])], <<" ">>)

\* any(word in education_text for word in req.lower().split())
RequirementMatches_all_words(req, education_text) ==
    LET words == Split(Lower(req))
    IN \A i \in 1..Len(words) : Contains(education_text, words[i])

RequirementMatches(req, education_text) ==
    LET words == Split(Lower(req))
    IN \E i \in 1..Len(words) : Contains(education_text, words[i])

compute_education_score(education, edu_requirements) ==
    IF edu_requirements = <<>> THEN Hundred
    ELSE IF education = <<>> THEN Zero
    ELSE LET education_text == EducationText(education)
             matches == Cardinality({i \in 1..Len(edu_requirements) :
                            RequirementMatches(edu_requirements[i], education_text)})
         IN RatMin(Hundred, RatMul(Rat(matches, Len(edu_requirements)), Hundred))

\* resume_skills_lower[key] of the dict {s.lower().strip(): s for s in
\* resume_skills}: the last resume skill with that key
LastWithKey(resume_skills, key) ==
    LET at == {i \in 1..Len(resume_skills) : Normalize(resume_skills[i]) = key}
    IN resume_skills[CHOOSE i \in at : \A j \in at : j <= i]

\* the matching resume skills, in the order of the resume
find_matched_skills_resume_order(resume_skills, required_skills) ==
    SelectIdx(resume_skills,
              {i \in 1..Len(resume_skills) :
                  Normalize(resume_skills[i]) \in NormalizedSet(required_skills)})

find_matched_skills(resume_skills, required_skills) ==
    LET hit == {i \in 1..Len(required_skills) :
                    Normalize(required_skills[i]) \in NormalizedSet(resume_skills)}
        picked == SelectIdx(required_skills, hit)
    IN [i \in 1..Len(picked) |-> LastWithKey(resume_skills, Normalize(picked[i]))]

identify_gaps_case_sensitive(resume_skills, required_skills) ==
    SelectIdx(required_skills,
              {i \in 1..Len(required_skills) :
                  required_skills[i] \notin Range(resume_skills)})

identify_gaps(resume_skills, required_skills) ==
    SelectIdx(required_skills,
              {i \in 1..Len(required_skills) :
                  Normalize(required_skills[i]) \notin NormalizedSet(resume_skills)})

\* f"{x:.1f}" of a rational x >= 0: one decimal, ties to even
Format1f(x) ==
    LET n == 10 * x[1]
        q == n \div x[2]
        r == n % x[2]
        t == IF 2 * r > x[2] \/ (2 * r = x[2] /\ q % 2 = 1) THEN q + 1 ELSE q
    IN ToString(t \div 10) \o "." \o ToString(t % 10)

identify_strengths(res, req) ==
    LET matched_skills == find_matched_skills(res.skills, req.required_skills)
        total_years == Rat(TotalMonths(res.experience), 12)
        min_exp_years == req.min_experience_years
        preferred_matches == find_matched_skills(res.skills, req.preferred_skills)
    IN (IF matched_skills # <<>>
        THEN << <<"Has ", ToString(Len(matched_skills)), " of ",
                  ToString(Len(req.required_skills)), " required skills">> >>
        ELSE <<>>)
       \o (IF min_exp_years > 0 /\ RatLeq(Rat(min_exp_years, 1), total_years)
           THEN << <<"Exceeds experience requirement (", Format1f(total_years),
                     " years)">> >>
           ELSE <<>>)
       \o (IF preferred_matches # <<>>
           THEN << <<"Has ", ToString(Len(preferred_matches)), " preferred skills">> >>
           ELSE <<>>)

match_candidate(res, req) ==
    LET skills_score == compute_skills_score(res.skills, req.required_skills)
        experience_score ==
            compute_experience_score(res.experience, req.min_experience_years)
        education_score ==
            compute_education_score(res.education, req.education_requirements)
    IN [resume |-> res,
        overall_score |-> compute_score(skills_score, experience_score, education_score),
        skills_score |-> skills_score,
        experience_score |-> experience_score,
        education_score |-> education_score,
        matched_skills |-> find_matched_skills(res.skills, req.required_skills),
        skill_gaps |-> identify_gaps(res.skills, req.required_skills),
        strengths |-> identify_strengths(res, req)]

(***************************************************************************)
(* The inputs of the matcher.                                              *)
(***************************************************************************)
SeqsUpTo(S, n) == UNION {[1..k -> S] : k \in 0..n}

SkillPool ==
    {<<"P", "y">>, <<" ", "p", "y", " ">>, <<"S", "Q", "L">>, <<"s", "q", "l">>}

DurationPool == {None, Some(6), Some(18)}

ExperiencePool == {[duration_months |-> d] : d \in DurationPool}

MinYearsPool == {-1, 0, 1, 2}

EducationPool ==
    {[degree |-> <<"B", "S">>, field |-> Some(<<"C", "S">>),
      institution |-> <<"M", "I", "T">>],
     [degree |-> <<"M", "B", "A">>, field |-> None, institution |-> <<>>]}

\* "BS in CS"; "it" (inside "mit"); "ml" (nowhere)
PhrasePool ==
    {<<"B", "S", " ", "i", "n", " ", "C", "S">>, <<"i", "t">>, <<"m", "l">>}

NamePool == {<<"Ann">>, <<"Bob">>}

InitMatcher ==
    \E sk \in SeqsUpTo(SkillPool, MaxItems) :
    \E rq \in SeqsUpTo(SkillPool, MaxItems - Len(sk)) :
    \E pf \in SeqsUpTo(SkillPool, MaxItems - Len(sk) - Len(rq)) :
    \E ex \in SeqsUpTo(ExperiencePool, MaxItems - Len(sk) - Len(rq) - Len(pf)) :
    \E ed \in SeqsUpTo(EducationPool,
                       MaxItems - Len(sk) - Len(rq) - Len(pf) - Len(ex)) :
    \E ph \in SeqsUpTo(PhrasePool,
                       MaxItems - Len(sk) - Len(rq) - Len(pf) - Len(ex) - Len(ed)) :
    \E my \in MinYearsPool :
        /\ resume = [name |-> <<"Ann">>, skills |-> sk, experience |-> ex,
                     education |-> ed]
        /\ requirements = [required_skills |-> rq, preferred_skills |-> pf,
                           min_experience_years |-> my,
                           education_requirements |-> ph]
        /\ matchResult = None

IdleMatcher == resume = None /\ requirements = None /\ matchResult = None

\* result = matcher.match_candidate(resume, requirements)
MatchCandidate ==
    /\ resume # None
    /\ matchResult = None
    /\ matchResult' = Some(match_candidate(resume, requirements))
    /\ UNCHANGED <<resume, requirements, rankerVars, runnerVars, validatorVars>>

(***************************************************************************)
(* Ranker (src/agents/ranker.py).                                          *)
(***************************************************************************)
\* key=lambda m: (m.overall_score, len(m.matched_skills))
SortKey(m) == <<m.overall_score, Len(m.matched_skills)>>

KeyLess_score_only(k1, k2) == RatLt(k1[1], k2[1])

\* k1 < k2 for two sort keys (tuples compare lexicographically)
KeyLess(k1, k2) ==
    \/ RatLt(k1[1], k2[1])
    \/ (k1[1] = k2[1] /\ k1[2] < k2[2])

\* x put in front of the elements whose key equals its own
InsertDesc_before_ties(sorted, x) ==
    LET lower == {i \in 1..Len(sorted) :
                     ~KeyLess(SortKey(x), SortKey(sorted[i]))}
        at == IF lower = {} THEN Len(sorted) + 1
              ELSE CHOOSE i \in lower : \A j \in lower : i <= j
    IN SubSeq(sorted, 1, at - 1) \o <<x>> \o SubSeq(sorted, at, Len(sorted))

\* x put into a list sorted descending, behind every element whose key is
\* not below its own
InsertDesc(sorted, x) ==
    LET lower == {i \in 1..Len(sorted) : KeyLess(SortKey(sorted[i]), SortKey(x))}
        at == IF lower = {} THEN Len(sorted) + 1
              ELSE CHOOSE i \in lower : \A j \in lower : i <= j
    IN SubSeq(sorted, 1, at - 1) \o <<x>> \o SubSeq(sorted, at, Len(sorted))

\* sorted(matches, key=..., reverse=True): stable, equal keys keep input order
RECURSIVE SortedDesc(_)
SortedDesc(ms) ==
    IF ms = <<>> THEN <<>>
    ELSE InsertDesc(SortedDesc(SubSeq(ms, 1, Len(ms) - 1)), ms[Len(ms)])

\* ', '.join(match.strengths) in place of ', '.join(match.strengths[:2])
generate_simple_explanation_all_strengths(match, rank) ==
    LET parts ==
            << <<"Ranked #", ToString(rank), " with ",
                 Format1f(match.overall_score), "% match.">> >>
            \o (IF match.matched_skills # <<>>
                THEN << <<"Has ", ToString(Len(match.matched_skills)),
                          " matching skills.">> >>
                ELSE <<>>)
            \o (IF match.skill_gaps # <<>>
                THEN << <<"Missing ", ToString(Len(match.skill_gaps)),
                          " required skills.">> >>
                ELSE <<>>)
            \o (IF match.strengths # <<>>
                THEN << <<"Strengths: ">> \o Join(match.strengths, <<", ">>)
                        \o <<".">> >>
                ELSE <<>>)
    IN Join(parts, <<" ">>)

generate_simple_explanation(match, rank) ==
    LET parts ==
            << <<"Ranked #", ToString(rank), " with ",
                 Format1f(match.overall_score), "% match.">> >>
            \o (IF match.matched_skills # <<>>
                THEN << <<"Has ", ToString(Len(match.matched_skills)),
                          " matching skills.">> >>
                ELSE <<>>)
            \o (IF match.skill_gaps # <<>>
                THEN << <<"Missing ", ToString(Len(match.skill_gaps)),
                          " required skills.">> >>
                ELSE <<>>)
            \o (IF match.strengths # <<>>
                THEN << <<"Strengths: ">>
                        \o Join(SubSeq(match.strengths, 1,
                                       IF Len(match.strengths) < 2
                                       THEN Len(match.strengths) ELSE 2),
                                <<", ">>)
                        \o <<".">> >>
                ELSE <<>>)
    IN Join(parts, <<" ">>)

\* What the external generator does in one call: it fails (no API key, a
\* failed request, no text) or answers with a text.
GenOutcomes ==
    {[kind |-> "raises", text |-> <<>>],
     [kind |-> "text", text |-> <<" ", "Strong fit.", "\n">>],
     [kind |-> "text", text |-> <<" ", "\n">>]}

generate_explanation(match, rank, outcome) ==
    IF outcome.kind = "text" THEN Strip(outcome.text)
    ELSE generate_simple_explanation(match, rank)

CandidateResult(match, rank, explanation) ==
    [rank |-> rank,
     name |-> match.resume.name,
     overall_score |-> match.overall_score,
     skills_score |-> match.skills_score,
     experience_score |-> match.experience_score,
     education_score |-> match.education_score,
     matched_skills |-> match.matched_skills,
     skill_gaps |-> match.skill_gaps,
     strengths |-> match.strengths,
     explanation |-> explanation]

\* gen[rank]: the generator's outcome when asked about the candidate of that rank
rank_candidates(matches, generate_explanations, gen) ==
    IF matches = <<>> THEN <<>>
    ELSE LET sorted_matches == SortedDesc(matches)
         IN [rank \in 1..Len(sorted_matches) |->
                CandidateResult(
                    sorted_matches[rank], rank,
                    IF generate_explanations
                    THEN generate_explanation(sorted_matches[rank], rank, gen[rank])
                    ELSE generate_simple_explanation(sorted_matches[rank], rank))]

(***************************************************************************)
(* The inputs of the ranker.                                               *)
(***************************************************************************)
ScorePool == {Rat(50, 1), Rat(161, 2)}

MatchedPool == {<<>>, << <<"p", "y">> >>}

MkMatch(name, score, matched) ==
    [resume |-> [name |-> name, skills |-> matched, experience |-> <<>>,
                 education |-> <<>>],
     overall_score |-> score,
     skills_score |-> score,
     experience_score |-> score,
     education_score |-> score,
     matched_skills |-> matched,
     skill_gaps |-> IF name = <<"Ann">> THEN << <<"S", "Q", "L">> >> ELSE <<>>,
     strengths |-> IF name = <<"Ann">>
                   THEN << <<"Has ", "1", " of ", "2", " required skills">>,
                           <<"Exceeds experience requirement (", "2.5", " years)">>,
                           <<"Has ", "1", " preferred skills">> >>
                   ELSE <<>>]

MatchPool ==
    {MkMatch(n, sc, ms) : n \in NamePool, sc \in ScorePool, ms \in MatchedPool}

InitRanker ==
    /\ rankInput \in SeqsUpTo(MatchPool, MaxMatches)
    /\ rankFlag \in BOOLEAN
    /\ ranked = None
    /\ rankGen = <<>>

IdleRanker ==
    rankInput = <<>> /\ rankFlag = FALSE /\ ranked = None /\ rankGen = <<>>

\* results = ranker.rank_candidates(matches, generate_explanations=flag)
RankCandidates ==
    /\ ranked = None
    /\ \E gen \in [1..Len(rankInput) -> GenOutcomes] :
          /\ ranked' = Some(rank_candidates(rankInput, rankFlag, gen))
          /\ rankGen' = gen
    /\ UNCHANGED <<rankInput, rankFlag, matcherVars, runnerVars, validatorVars>>

(***************************************************************************)
(* Runner (src/runner.py) and the collaborators it calls.                  *)
(***************************************************************************)
\* ProcessingStatus (start_time and elapsed_seconds, which nothing reads,
\* are left out)
ProcessingStatus(agent, processed, total, error, is_complete) ==
    [current_agent |-> agent,
     processed_count |-> processed,
     total_count |-> total,
     is_complete |-> is_complete,
     error_message |-> error]

\* AnalyzerAgent.analyze_job_description: the (requirements, error) pairs it
\* can return.  A blank description is refused before the external call; the
\* external extraction answers with requirements or fails.
JobDescriptionPool == {<<>>, <<" ", "\n">>, <<"d", "e", "v">>}

RequirementsPool ==
    {[required_skills |-> << <<"P", "y">>, <<"S", "Q", "L">> >>,
      preferred_skills |-> <<>>,
      min_experience_years |-> 1,
      education_requirements |-> << <<"B", "S", " ", "i", "n", " ", "C", "S">> >>],
     [required_skills |-> <<>>,
      preferred_skills |-> << <<"s", "q", "l">> >>,
      min_experience_years |-> 0,
      education_requirements |-> <<>>]}

analyze_job_description(description) ==
    IF description = <<>> \/ Strip(description) = <<>>
    THEN {[value |-> None, error |-> Some(<<"Empty job description">>)]}
    ELSE {[value |-> Some(q), error |-> None] : q \in RequirementsPool}
         \cup {[value |-> None,
                error |-> Some(<<"Failed to analyze job description: ", "quota">>)]}

\* The resumes the external extraction can answer with.  skills_is_none says
\* that the answer's "skills" was null, so that ResumeData.skills is None.
ResumePool ==
    {[name |-> <<"Ann">>, skills |-> << <<" ", "p", "y", " ">> >>,
      skills_is_none |-> FALSE,
      experience |-> << [duration_months |-> Some(18)] >>,
      education |-> <<>>],
     [name |-> <<"Dee">>, skills |-> << <<"S", "Q", "L">> >>,
      skills_is_none |-> FALSE,
      experience |-> << [duration_months |-> None] >>,
      education |-> << [degree |-> <<"B", "S">>, field |-> Some(<<"C", "S">>),
                        institution |-> <<"M", "I", "T">>] >>],
     [name |-> <<"Bob">>, skills |-> <<>>,
      skills_is_none |-> TRUE,
      experience |-> <<>>,
      education |-> <<>>]}

InputPool == {<<>>, <<"c", "v">>}

ExtractionOutcomes ==
    {[value |-> Some(res), error |-> None] : res \in ResumePool}
    \cup {[value |-> None,
           error |-> Some(<<"Failed to parse Gemini response as JSON: ", "line 1">>)]}

\* ParserAgent.parse_resume: empty bytes are refused by the PDF extractor
parse_resume(pdf_bytes) ==
    IF pdf_bytes = <<>>
    THEN {[value |-> None, error |-> Some(<<"Empty PDF file">>)]}
    ELSE ExtractionOutcomes

\* ParserAgent.parse_resume_from_text: blank text is refused
parse_resume_from_text(text) ==
    IF text = <<>> \/ Strip(text) = <<>>
    THEN {[value |-> None, error |-> Some(<<"Empty resume text">>)]}
    ELSE ExtractionOutcomes

\* match_candidate iterates resume.skills: None is not iterable
MatchRaises(res) == res.skills_is_none

TypeErrorMessage == <<"'NoneType' object is not iterable">>

\* notify(status): a callback, when given, is called with the snapshot and
\* may raise
CallbackPool == {"none", "ok", "raising"}

CallbackRaises(run) == IF run.callback = "raising" THEN BOOLEAN ELSE {FALSE}

\* "return self._status" read the field of an instance all runs share
ReadStatus_shared(run) ==
    IF status[1] # None THEN status[1][1] ELSE status[run.inst][1]

\* "return self._status" at the end of _update_status: the field is read
\* again, after the assignment
ReadStatus(run) == status[run.inst][1]

\* _update_status(...) followed by notify(status).  The status st is
\* assigned to self._status and read back at once, unless the assignment was
\* made in an earlier step (wrote): then what is read back is what the field
\* holds by now.  written lists the statuses the run assigned itself.
Emit(run, st) ==
    IF run.wrote
    THEN [run EXCEPT !.snapshots = Append(@, ReadStatus(run)), !.wrote = FALSE]
    ELSE [run EXCEPT !.snapshots = Append(@, st), !.written = Append(@, st)]

Raised(run) == [run EXCEPT !.pc = "raised"]

\* on_status_update(status) raised inside notify: nothing in process catches it
NotifyRaised_caught(run) == [run EXCEPT !.callback_raised = TRUE]

NotifyRaised(run) == [Raised(run) EXCEPT !.callback_raised = TRUE]

\* the error accumulator kept on the runner and shared by its runs
Returned_shared_errors(run, results, error) ==
    LET shared == Join([r \in DOMAIN runs |->
                           IF runs[r].inst = run.inst THEN runs[r].errors
                           ELSE <<>>],
                       <<>>)
    IN [run EXCEPT !.pc = "returned",
                   !.retval =
                       Some([results |-> results,
                             error |-> IF results = <<>> THEN error
                                       ELSE IF shared = <<>> THEN None
                                       ELSE Some(Join(shared, <<"; ">>))])]

Returned(run, results, error) ==
    [run EXCEPT !.pc = "returned",
                !.retval = Some([results |-> results, error |-> error])]

\* the record of one call of a collaborator: which, its argument (the 1-based
\* position of the candidate, or the number of the ranking call), whether it
\* succeeded, and the error it reported
Called_twice(run, op, arg, ok, error) ==
    [run EXCEPT !.calls = @ \o << [op |-> op, arg |-> arg, ok |-> ok,
                                   error |-> error],
                                  [op |-> op, arg |-> arg, ok |-> ok,
                                   error |-> error] >>]

Called(run, op, arg, ok, error) ==
    [run EXCEPT !.calls = Append(@, [op |-> op, arg |-> arg, ok |-> ok,
                                     error |-> error])]

\* f"Failed to analyze job description: {error}"
AnalyzeFailureMessage_bare(error) == error

AnalyzeFailureMessage(error) == <<"Failed to analyze job description: ">> \o error

\* f"Resume {i+1}: {error}", i the 0-based index of the loop
ParseErrorEntry_zero_based(i, error) == <<"Resume ", ToString(i), ": ">> \o error

ParseErrorEntry(i, error) == <<"Resume ", ToString(i + 1), ": ">> \o error

\* f"Matching {resume.name}: {str(e)}"
MatchErrorEntry_without_name(res, message) == <<"Matching ">> \o <<": ">> \o message

MatchErrorEntry(res, message) == <<"Matching ">> \o res.name \o <<": ">> \o message

\* "; ".join(errors) if errors else None
error_summary_comma(errors) ==
    IF errors = <<>> THEN None ELSE Some(Join(errors, <<", ">>))

error_summary(errors) ==
    IF errors = <<>> THEN None ELSE Some(Join(errors, <<"; ">>))

\* error_msg = "No resumes could be parsed"
NoResumesMessage_with_errors(run) ==
    IF run.errors = <<>> THEN <<"No resumes could be parsed">>
    ELSE <<"No resumes could be parsed">> \o <<": ">> \o Join(run.errors, <<"; ">>)

NoResumesMessage(run) == <<"No resumes could be parsed">>

\* error_msg = "No candidates could be matched"
NoMatchesMessage_by_entry(run) ==
    IF run.entry = "process" THEN <<"No candidates could be matched">>
    ELSE <<"No resume texts could be matched">>

NoMatchesMessage(run) == <<"No candidates could be matched">>

\* the Complete snapshot: processed = total = len(results)
CompleteStatus_batch_total(run) ==
    ProcessingStatus("Complete", Len(run.results), Len(run.pdf_files), None, TRUE)

CompleteStatus(run) ==
    ProcessingStatus("Complete", Len(run.results), Len(run.results), None, TRUE)

NewRun(inst, entry, files, description, flag, callback) ==
    [inst |-> inst, entry |-> entry, pdf_files |-> files,
     job_description |-> description, generate_explanations |-> flag,
     callback |-> callback, pc |-> "start", job_requirements |-> None, i |-> 0,
     parsed_resumes |-> <<>>, errors |-> <<>>, matches |-> <<>>, results |-> <<>>,
     snapshots |-> <<>>, calls |-> <<>>, retval |-> None,
     callback_raised |-> FALSE, wrote |-> FALSE, written |-> <<>>, after |-> 0]

total_resumes(run) == Len(run.pdf_files)

\* _update_status("Analyzer", 0, total_resumes, start_time[, error=error])
AnalyzerStatus_parser_stage(run, error) ==
    ProcessingStatus("Parser", 0, total_resumes(run), error, FALSE)

AnalyzerStatus(run, error) ==
    ProcessingStatus("Analyzer", 0, total_resumes(run), error, FALSE)

\* _update_status("Parser", i, total_resumes, start_time)
ParserStatus_with_errors(run, i) ==
    ProcessingStatus("Parser", i, total_resumes(run), error_summary(run.errors),
                     FALSE)

ParserStatus(run, i) ==
    ProcessingStatus("Parser", i, total_resumes(run), None, FALSE)

\* _update_status("Matcher", i, len(parsed_resumes), start_time)
MatcherStatus_batch_total(run, i) ==
    ProcessingStatus("Matcher", i, total_resumes(run), None, FALSE)

MatcherStatus(run, i) ==
    ProcessingStatus("Matcher", i, Len(run.parsed_resumes), None, FALSE)

\* _update_status("Parser", total_resumes, total_resumes, start_time,
\*                error=error_msg)
NoResumesStatus(run) ==
    ProcessingStatus("Parser", total_resumes(run), total_resumes(run),
                     Some(NoResumesMessage(run)), FALSE)

\* _update_status("Matcher", len(parsed_resumes), len(parsed_resumes),
\*                start_time, error=error_msg)
NoMatchesStatus(run) ==
    ProcessingStatus("Matcher", Len(run.parsed_resumes), Len(run.parsed_resumes),
                     Some(NoMatchesMessage(run)), FALSE)

\* _update_status("Ranker", 0, len(matches), start_time)
RankerStatus(run) ==
    ProcessingStatus("Ranker", 0, Len(run.matches), None, FALSE)

\* self._status = ProcessingStatus(...): the retained snapshot is replaced
SetStatus_first_only(r, st) ==
    status' = [status EXCEPT ![runs[r].inst] = IF @ = None THEN Some(st) ELSE @]

SetStatus(r, st) ==
    status' = IF runs[r].wrote THEN status
              ELSE [status EXCEPT ![runs[r].inst] = Some(st)]

\* the caller has made the call: at once, or once the run it waits for ended
CallMade(run) ==
    IF run.after = 0 THEN TRUE
    ELSE runs[run.after].pc \in {"returned", "raised"}

\* runner.py 82: the first snapshot
Start(r) ==
    /\ UNCHANGED <<matcherVars, rankerVars, validatorVars>>
    /\ runs[r].pc = "start"
    /\ CallMade(runs[r])
    /\ LET st == AnalyzerStatus(runs[r], None)
       IN /\ SetStatus(r, st)
          /\ \E boom \in CallbackRaises(runs[r]) :
                runs' = [runs EXCEPT ![r] =
                            IF boom THEN NotifyRaised(Emit(@, st))
                            ELSE [Emit(@, st) EXCEPT !.pc = "analyze"]]

\* runner.py 84-92: the job description is analyzed
Analyze(r) ==
    /\ UNCHANGED <<matcherVars, rankerVars, validatorVars>>
    /\ runs[r].pc = "analyze"
    /\ \E out \in analyze_job_description(runs[r].job_description) :
          LET run == Called(runs[r], "analyze", 0, out.error = None, out.error)
          IN IF out.error # None
             THEN LET st == AnalyzerStatus(run, out.error)
                  IN /\ SetStatus(r, st)
                     /\ \E boom \in CallbackRaises(run) :
                           runs' = [runs EXCEPT ![r] =
                               IF boom THEN NotifyRaised(Emit(run, st))
                               ELSE Returned(Emit(run, st), <<>>,
                                        Some(AnalyzeFailureMessage(out.error[1])))]
             ELSE /\ runs' = [runs EXCEPT ![r] =
                                [run EXCEPT !.job_requirements = out.value,
                                            !.pc = "parse", !.i = 0]]
                  /\ UNCHANGED status

\* runner.py 94-103: one pass of the parsing loop
ParseStep(r) ==
    /\ UNCHANGED <<matcherVars, rankerVars, validatorVars>>
    /\ runs[r].pc = "parse"
    /\ runs[r].i < total_resumes(runs[r])
    /\ LET i == runs[r].i
           st == ParserStatus(runs[r], i)
       IN /\ SetStatus(r, st)
          /\ \/ /\ TRUE \in CallbackRaises(runs[r])
                /\ runs' = [runs EXCEPT ![r] = NotifyRaised(Emit(@, st))]
             \/ \E out \in (IF runs[r].entry = "process"
                            THEN parse_resume(runs[r].pdf_files[i + 1])
                            ELSE parse_resume_from_text(runs[r].pdf_files[i + 1])) :
                   LET run == Called(Emit(runs[r], st), "parse", i + 1,
                                     out.error = None, out.error)
                   IN runs' = [runs EXCEPT ![r] =
                        IF out.error # None
                        THEN [run EXCEPT
                                !.errors = Append(@, ParseErrorEntry(i, out.error[1])),
                                !.i = i + 1]
                        ELSE [run EXCEPT
                                !.parsed_resumes = Append(@, out.value[1]),
                                !.i = i + 1]]

\* "if not parsed_resumes:" and "if not matches:": nothing survived the stage
NoSurvivors_unchecked(items) == FALSE

NoSurvivors(items) == items = <<>>

\* runner.py 105-112: after the parsing loop
ParseEnd(r) ==
    /\ UNCHANGED <<matcherVars, rankerVars, validatorVars>>
    /\ runs[r].pc = "parse"
    /\ runs[r].i = total_resumes(runs[r])
    /\ IF NoSurvivors(runs[r].parsed_resumes)
       THEN LET error_msg == NoResumesMessage(runs[r])
                st == NoResumesStatus(runs[r])
            IN /\ SetStatus(r, st)
               /\ \E boom \in CallbackRaises(runs[r]) :
                     runs' = [runs EXCEPT ![r] =
                                 IF boom THEN NotifyRaised(Emit(@, st))
                                 ELSE Returned(Emit(@, st), <<>>, Some(error_msg))]
       ELSE /\ runs' = [runs EXCEPT ![r] = [@ EXCEPT !.pc = "match", !.i = 0]]
            /\ UNCHANGED status

\* runner.py 114-123: one pass of the matching loop
MatchStep(r) ==
    /\ UNCHANGED <<matcherVars, rankerVars, validatorVars>>
    /\ runs[r].pc = "match"
    /\ runs[r].i < Len(runs[r].parsed_resumes)
    /\ LET i == runs[r].i
           res == runs[r].parsed_resumes[i + 1]
           st == MatcherStatus(runs[r], i)
       IN /\ SetStatus(r, st)
          /\ \E boom \in CallbackRaises(runs[r]) :
                LET run == Called(Emit(runs[r], st), "match", i + 1,
                                  ~MatchRaises(res),
                                  IF MatchRaises(res) THEN Some(TypeErrorMessage)
                                  ELSE None)
                IN runs' = [runs EXCEPT ![r] =
                     IF boom THEN NotifyRaised(Emit(@, st))
                     ELSE IF MatchRaises(res)
                     THEN [run EXCEPT
                             !.errors = Append(@, MatchErrorEntry(res, TypeErrorMessage)),
                             !.i = i + 1]
                     ELSE [run EXCEPT
                             !.matches = Append(@,
                                 match_candidate(res, run.job_requirements[1])),
                             !.i = i + 1]]

\* runner.py 125-129: after the matching loop
MatchEnd(r) ==
    /\ UNCHANGED <<matcherVars, rankerVars, validatorVars>>
    /\ runs[r].pc = "match"
    /\ runs[r].i = Len(runs[r].parsed_resumes)
    /\ IF NoSurvivors(runs[r].matches)
       THEN LET error_msg == NoMatchesMessage(runs[r])
                st == NoMatchesStatus(runs[r])
            IN /\ SetStatus(r, st)
               /\ \E boom \in CallbackRaises(runs[r]) :
                     runs' = [runs EXCEPT ![r] =
                                 IF boom THEN NotifyRaised(Emit(@, st))
                                 ELSE Returned(Emit(@, st), <<>>, Some(error_msg))]
       ELSE /\ runs' = [runs EXCEPT ![r] = [@ EXCEPT !.pc = "rank"]]
            /\ UNCHANGED status

\* The message of an exception that leaves rank_candidates.  The ranker
\* catches what its explanation generator raises; what leaves it comes from the
\* sort, the template or the construction of a result, in either call.
RankErrorMessage == <<"ranking failed">>

\* runner.py 132-137: the Ranker snapshot and the first ranking call, which
\* returns the ranked list or raises
Rank(r) ==
    /\ UNCHANGED <<matcherVars, rankerVars, validatorVars>>
    /\ runs[r].pc = "rank"
    /\ LET st == RankerStatus(runs[r])
           run == Emit(runs[r], st)
       IN /\ SetStatus(r, st)
          /\ \/ /\ TRUE \in CallbackRaises(runs[r])
                /\ runs' = [runs EXCEPT ![r] = NotifyRaised(run)]
             \/ \E gen \in [1..Len(runs[r].matches) -> GenOutcomes] :
                   runs' = [runs EXCEPT ![r] =
                       [Called(run, "rank", 1, TRUE, None) EXCEPT
                          !.results = rank_candidates(run.matches,
                                          run.generate_explanations, gen),
                          !.pc = "complete"]]
             \/ runs' = [runs EXCEPT ![r] =
                            [Called(run, "rank", 1, FALSE, Some(RankErrorMessage))
                                EXCEPT !.pc = "rank_fallback"]]

\* runner.py 136-139: the except branch calls the ranker again, outside any try
RankFallback(r) ==
    /\ UNCHANGED <<matcherVars, rankerVars, validatorVars>>
    /\ runs[r].pc = "rank_fallback"
    /\ \/ runs' = [runs EXCEPT ![r] =
                [Called(runs[r], "rank", 2, TRUE, None) EXCEPT
                   !.results = rank_candidates(runs[r].matches, FALSE, <<>>),
                   !.pc = "complete"]]
       \/ runs' = [runs EXCEPT ![r] =
                Raised(Called(runs[r], "rank", 2, FALSE, Some(RankErrorMessage)))]
    /\ UNCHANGED status

\* runner.py 142-146: the Complete snapshot and the return
Complete(r) ==
    /\ UNCHANGED <<matcherVars, rankerVars, validatorVars>>
    /\ runs[r].pc = "complete"
    /\ LET st == CompleteStatus(runs[r])
       IN /\ SetStatus(r, st)
          /\ \E boom \in CallbackRaises(runs[r]) :
                runs' = [runs EXCEPT ![r] =
                            IF boom THEN NotifyRaised(Emit(@, st))
                            ELSE Returned(Emit(@, st), @.results,
                                          error_summary(@.errors))]

\* the call of _update_status the run makes next, when its arguments are
\* settled by what the run has done so far
UpdatesNext(run) ==
    \/ run.pc \in {"start", "rank", "complete"}
    \/ /\ run.pc = "parse"
       /\ run.i = total_resumes(run) => NoSurvivors(run.parsed_resumes)
    \/ /\ run.pc = "match"
       /\ run.i = Len(run.parsed_resumes) => NoSurvivors(run.matches)

NextStatus(run) ==
    CASE run.pc = "start" -> AnalyzerStatus(run, None)
      [] run.pc = "parse" /\ run.i < total_resumes(run) -> ParserStatus(run, run.i)
      [] run.pc = "parse" /\ run.i = total_resumes(run) -> NoResumesStatus(run)
      [] run.pc = "match" /\ run.i < Len(run.parsed_resumes) ->
            MatcherStatus(run, run.i)
      [] run.pc = "match" /\ run.i = Len(run.parsed_resumes) -> NoMatchesStatus(run)
      [] run.pc = "rank" -> RankerStatus(run)
      [] run.pc = "complete" -> CompleteStatus(run)

\* runner.py 45-53: the assignment to self._status inside _update_status,
\* when another run takes steps before line 54 reads the field back
UpdateStatus(r) ==
    /\ UNCHANGED <<matcherVars, rankerVars, validatorVars>>
    /\ ~runs[r].wrote
    /\ CallMade(runs[r])
    /\ UpdatesNext(runs[r])
    /\ LET st == NextStatus(runs[r])
       IN /\ SetStatus(r, st)
          /\ runs' = [runs EXCEPT ![r] =
                        [@ EXCEPT !.wrote = TRUE, !.written = Append(@, st)]]

\* ResumeScreeningRunner.get_status
get_status(inst) == status[inst]

\* one run on one runner; generate_explanations defaults to True in process
\* and to False in process_from_text, and the caller may give either
InitRunner ==
    /\ \E entry \in {"process", "process_from_text"} :
       \E files \in SeqsUpTo(InputPool, MaxResumes) :
       \E description \in JobDescriptionPool :
       \E flag \in BOOLEAN :
       \E callback \in CallbackPool :
          runs = [r \in {1} |-> NewRun(1, entry, files, description, flag, callback)]
    /\ status = [inst \in {1} |-> None]

IdleRunner == runs = <<>> /\ status = <<>>

\* Two calls by one caller, one through each entry point, on two runners or
\* on the same one; each has a callback that takes every snapshot.  The
\* second call is made from another thread while the first is in flight
\* (after = 0), or by the same thread once the first has ended (after = 1).
PairConfig(inst2, after, files1, files2, flag) ==
    [inst2 |-> inst2, after |-> after, files1 |-> files1, files2 |-> files2,
     flag |-> flag]

OneCandidate == << <<"c", "v">> >>

EmptyThenCandidate == << <<>>, <<"c", "v">> >>

OneEmptyInput == << <<>> >>

TwoCandidates == << <<"c", "v">>, <<"c", "v">> >>

\* two runs in flight together on two runners
ConcurrentDistinctConfigs ==
    {PairConfig(2, 0, files1, files2, flag) :
        files1 \in {OneCandidate, EmptyThenCandidate},
        files2 \in {OneCandidate, EmptyThenCandidate},
        flag \in BOOLEAN}

\* two runs in flight together on one runner
ConcurrentSharedConfigs ==
    {PairConfig(1, 0, OneCandidate, OneEmptyInput, FALSE),
     PairConfig(1, 0, OneEmptyInput, OneCandidate, FALSE)}

ConcurrentConfigs == ConcurrentDistinctConfigs \cup ConcurrentSharedConfigs

\* two runs one after the other, over batches of the same size
SequentialConfigs ==
    {PairConfig(inst2, 1, OneCandidate, OneCandidate, flag) :
        inst2 \in {1, 2}, flag \in BOOLEAN}
    \cup {PairConfig(inst2, 1, TwoCandidates, TwoCandidates, FALSE) :
             inst2 \in {1, 2}}

InitPair ==
    /\ \E c \in ConcurrentConfigs \cup SequentialConfigs :
          runs = <<NewRun(1, "process", c.files1, <<"d", "e", "v">>, c.flag, "ok"),
                   [NewRun(c.inst2, "process_from_text", c.files2,
                           <<"d", "e", "v">>, c.flag, "ok")
                       EXCEPT !.after = c.after]>>
    /\ status = [inst \in {1, 2} |-> None]

(***************************************************************************)
(* Validation of an upload (src/utils/validation.py).                      *)
(***************************************************************************)
MAX_PDF_FILES == 50

ValidationResult(is_valid, error_message) ==
    [is_valid |-> is_valid, error_message |-> error_message]

\* bytes.startswith(prefix)
StartsWith(bytes, prefix) ==
    Len(bytes) >= Len(prefix) /\ SubSeq(bytes, 1, Len(prefix)) = prefix

is_pdf_anywhere(file_bytes) ==
    IF file_bytes = <<>> THEN FALSE
    ELSE Contains(file_bytes, <<"%", "P", "D", "F">>)

is_pdf(file_bytes) ==
    IF file_bytes = <<>> THEN FALSE
    ELSE StartsWith(file_bytes, <<"%", "P", "D", "F">>)

\* str() of a list of integers, as an f-string formats it: "[1, 3]"
ListRepr(numbers) ==
    <<"[">> \o Join([i \in 1..Len(numbers) |-> <<ToString(numbers[i])>>], <<", ">>)
    \o <<"]">>

NoFilesMessage == <<"No files uploaded. Please upload at least one PDF resume.">>

TooManyFilesMessage(count) ==
    <<"Too many files. Maximum allowed is ", ToString(MAX_PDF_FILES), ", got ",
      ToString(count), ".">>

validate_pdf_files(files) ==
    IF files = <<>> THEN ValidationResult(FALSE, Some(NoFilesMessage))
    ELSE IF Len(files) > MAX_PDF_FILES
    THEN ValidationResult(FALSE, Some(TooManyFilesMessage(Len(files))))
    ELSE LET invalid_files ==
                 SelectIdx([i \in 1..Len(files) |-> i],
                           {i \in 1..Len(files) : ~is_pdf(files[i])})
         IN IF invalid_files # <<>>
            THEN ValidationResult(FALSE,
                    Some(<<"Invalid file format. Files at positions ">>
                         \o ListRepr(invalid_files)
                         \o <<" are not valid PDFs. Only PDF format is supported.">>))
            ELSE ValidationResult(TRUE, None)

validate_file_count(count) ==
    IF count < 1 THEN ValidationResult(FALSE, Some(NoFilesMessage))
    ELSE IF count > MAX_PDF_FILES
    THEN ValidationResult(FALSE, Some(TooManyFilesMessage(count)))
    ELSE ValidationResult(TRUE, None)

\* payloads: a PDF, nothing, a cut signature, another format, and a signature
\* that is not at the start
PdfPayload == <<"%", "P", "D", "F", "-", "1", ".", "4">>

PayloadPool ==
    {PdfPayload, <<>>, <<"%", "P", "D">>, <<"P", "K", "%", "P", "D">>,
     <<" ", "%", "P", "D", "F">>}

\* the uploads of n payloads: the first, the second and the last are any of
\* the pool, the others are PDFs
Uploads(n) ==
    LET free == {1, 2, n} \cap (1..n)
    IN {[i \in 1..n |-> IF i \in free THEN f[i] ELSE PdfPayload] :
           f \in [free -> PayloadPool]}

InitValidator ==
    /\ \E n \in 0..MaxUpload : upload \in Uploads(n)
    /\ uploadCount \in {Len(upload) - 1, Len(upload)}
    /\ pdfValidation = None
    /\ countValidation = None

IdleValidator ==
    upload = <<>> /\ uploadCount = 0 /\ pdfValidation = None /\ countValidation = None

\* result = validate_pdf_files(files)
ValidatePdfFiles ==
    /\ pdfValidation = None
    /\ pdfValidation' = Some(validate_pdf_files(upload))
    /\ UNCHANGED <<upload, uploadCount, countValidation,
                   matcherVars, rankerVars, runnerVars>>

\* result = validate_file_count(count)
ValidateFileCount ==
    /\ countValidation = None
    /\ countValidation' = Some(validate_file_count(uploadCount))
    /\ UNCHANGED <<upload, uploadCount, pdfValidation,
                   matcherVars, rankerVars, runnerVars>>

vars == <<resume, requirements, matchResult, rankInput, rankFlag, ranked,
          runs, status, upload, uploadCount, pdfValidation, countValidation>>

NextMatcher == MatchCandidate

MatcherInit == InitMatcher /\ IdleRanker /\ IdleRunner /\ IdleValidator

SpecMatcher == MatcherInit /\ [][NextMatcher]_vars

NextRanker == RankCandidates

RankerInit == InitRanker /\ IdleMatcher /\ IdleRunner /\ IdleValidator

SpecRanker == RankerInit /\ [][NextRanker]_vars

Next ==
    \/ \E r \in DOMAIN runs : Start(r)
    \/ \E r \in DOMAIN runs : Analyze(r)
    \/ \E r \in DOMAIN runs : ParseStep(r)
    \/ \E r \in DOMAIN runs : ParseEnd(r)
    \/ \E r \in DOMAIN runs : MatchStep(r)
    \/ \E r \in DOMAIN runs : MatchEnd(r)
    \/ \E r \in DOMAIN runs : Rank(r)
    \/ \E r \in DOMAIN runs : RankFallback(r)
    \/ \E r \in DOMAIN runs : Complete(r)

NextValidator == ValidatePdfFiles \/ ValidateFileCount

ValidatorInit == InitValidator /\ IdleMatcher /\ IdleRanker /\ IdleRunner

SpecValidator == ValidatorInit /\ [][NextValidator]_vars

Init == InitRunner /\ IdleMatcher /\ IdleRanker /\ IdleValidator

Spec == Init /\ [][Next]_vars

NextPair ==
    \/ \E r \in DOMAIN runs : UpdateStatus(r)
    \/ Next

PairInit == InitPair /\ IdleMatcher /\ IdleRanker /\ IdleValidator

SpecPair == PairInit /\ [][NextPair]_vars

(***************************************************************************)
(* Properties of the Matcher, checked under SpecMatcher.                   *)
(***************************************************************************)
InRange(score) == RatLeq(Zero, score) /\ RatLeq(score, Hundred)

\* C1: every one of the four scores of the MatchResult that match_candidate
\* returns (overall, skills, experience, education) lies in [0, 100], for
\* durations that are missing or >= 0 and a minimum of years >= 0.
C1_ScoreBounds ==
    matchResult # None =>
        /\ InRange(matchResult[1].overall_score)
        /\ InRange(matchResult[1].skills_score)
        /\ InRange(matchResult[1].experience_score)
        /\ InRange(matchResult[1].education_score)

\* a match whose three component scores are 50, 100 (more experience than
\* asked for) and 0
C1_Witness ==
    /\ matchResult # None
    /\ matchResult[1].skills_score = Rat(50, 1)
    /\ requirements.min_experience_years = 1
    /\ TotalMonths(resume.experience) = 18
    /\ matchResult[1].experience_score = Hundred

\* C2: the overall score is 0.4*skills + 0.4*experience + 0.2*education within
\* 0.01, and the three weights sum to 1.
C2_WeightedScore ==
    /\ RatAdd(RatAdd(SKILLS_WEIGHT, EXPERIENCE_WEIGHT), EDUCATION_WEIGHT) = Rat(1, 1)
    /\ matchResult # None =>
          LET s == matchResult[1].skills_score
              e == matchResult[1].experience_score
              d == matchResult[1].education_score
              expected == Rat(4 * s[1] * e[2] * d[2] + 4 * e[1] * s[2] * d[2]
                              + 2 * d[1] * s[2] * e[2],
                              10 * s[2] * e[2] * d[2])
          IN RatWithin(matchResult[1].overall_score, expected, Rat(1, 100))

\* a match whose three component scores differ pairwise
C2_Witness ==
    /\ matchResult # None
    /\ matchResult[1].skills_score = Zero
    /\ matchResult[1].experience_score = Rat(50, 1)
    /\ matchResult[1].education_score = Hundred
    /\ matchResult[1].overall_score = Rat(40, 1)

\* C3: the normalized skill gaps and the normalized matched skills are
\* disjoint and together are the normalized required skills.
C3_GapsPartition ==
    matchResult # None =>
        LET gaps == NormalizedSet(matchResult[1].skill_gaps)
            matched == NormalizedSet(matchResult[1].matched_skills)
        IN /\ gaps \cup matched = NormalizedSet(requirements.required_skills)
           /\ gaps \cap matched = {}

\* a required skill matched by a resume skill written differently, beside a gap
C3_Witness ==
    /\ matchResult # None
    /\ matchResult[1].skill_gaps # <<>>
    /\ \E i \in 1..Len(matchResult[1].matched_skills) :
          matchResult[1].matched_skills[i] \notin Range(requirements.required_skills)

\* C14: the skills score is 100 when no skill is required; otherwise it is
\* 100 * |R \cap Q| / |Q| for the sets R and Q of the trimmed, lower-cased
\* resume and required skills; it is 100 exactly when Q is within R; required
\* ["Py", "SQL"] against resume [" py "] gives 50 with the gap ["SQL"].
C14_SkillsScore ==
    matchResult # None =>
        LET R == {Strip(Lower(resume.skills[i])) : i \in 1..Len(resume.skills)}
            Q == {Strip(Lower(requirements.required_skills[i])) :
                     i \in 1..Len(requirements.required_skills)}
            score == matchResult[1].skills_score
        IN /\ requirements.required_skills = <<>> => score = <<100, 1>>
           /\ requirements.required_skills # <<>> =>
                 score[1] * Cardinality(Q) = 100 * Cardinality(R \cap Q) * score[2]
           /\ (score = <<100, 1>>) <=> (Q \subseteq R)
           /\ (/\ requirements.required_skills = << <<"P", "y">>, <<"S", "Q", "L">> >>
               /\ resume.skills = << <<" ", "p", "y", " ">> >>)
                 => /\ score = <<50, 1>>
                    /\ matchResult[1].skill_gaps = << <<"S", "Q", "L">> >>

\* two required skills that normalize to the same one, matched by one resume
\* skill written a third way
C14_Witness ==
    /\ matchResult # None
    /\ requirements.required_skills = << <<"S", "Q", "L">>, <<"s", "q", "l">> >>
    /\ Len(resume.skills) = 1
    /\ matchResult[1].skills_score = <<100, 1>>

\* C15: the experience score is 100 whenever the minimum of years is <= 0;
\* otherwise, with T the sum of the durations in months (a missing one counts
\* 0), it is 100 if T/12 >= minimum and 100*T/(12*minimum) if not, which is
\* strictly below 100.
C15_ExperienceScore ==
    matchResult # None =>
        LET minimum == requirements.min_experience_years
            T == TotalMonths(resume.experience)
            score == matchResult[1].experience_score
        IN /\ minimum <= 0 => score = <<100, 1>>
           /\ (minimum > 0 /\ T >= 12 * minimum) => score = <<100, 1>>
           /\ (minimum > 0 /\ T < 12 * minimum) =>
                 /\ score[1] * 12 * minimum = 100 * T * score[2]
                 /\ score[1] < 100 * score[2]

\* 6 + 6 months and an entry without duration against a minimum of 2 years
C15_Witness ==
    /\ matchResult # None
    /\ requirements.min_experience_years = 2
    /\ Len(resume.experience) = 3
    /\ \E i \in 1..3 : resume.experience[i].duration_months = None
    /\ TotalMonths(resume.experience) = 12
    /\ matchResult[1].experience_score = <<50, 1>>

\* the lower-cased text of all entries' degree, field and institution
EducationBlob(education) ==
    Lower(Join([i \in 1..Len(education) |->
                    education[i].degree \o <<" ">>
                    \o (IF education[i].field = None THEN <<>>
                        ELSE education[i].field[1])
                    \o <<" ">> \o education[i].institution],
               <<" ">>))

\* C16: the education score is 100 when there is no requirement phrase, 0
\* when there are phrases and no education entry, and otherwise 100 * m / n
\* for n phrases of which m have at least one whitespace-split, lower-cased
\* word occurring in the lower-cased text of the entries.
C16_EducationScore ==
    matchResult # None =>
        LET phrases == requirements.education_requirements
            n == Len(phrases)
            blob == EducationBlob(resume.education)
            m == Cardinality({i \in 1..n :
                    \E w \in Range(Split(Lower(phrases[i]))) : Contains(blob, w)})
            score == matchResult[1].education_score
        IN /\ n = 0 => score = <<100, 1>>
           /\ (n > 0 /\ resume.education = <<>>) => score = <<0, 1>>
           /\ (n > 0 /\ resume.education # <<>>) => score[1] * n = 100 * m * score[2]

\* "BS in CS" (of which "in" is not in the text) and "ml" against one entry
\* "bs cs mit": one phrase of two matches
C16_Witness ==
    /\ matchResult # None
    /\ Len(resume.education) = 1
    /\ resume.education[1].field # None
    /\ requirements.education_requirements =
          << <<"B", "S", " ", "i", "n", " ", "C", "S">>, <<"m", "l">> >>
    /\ matchResult[1].education_score = <<50, 1>>

(***************************************************************************)
(* Properties of the Ranker, checked under SpecRanker.                     *)
(***************************************************************************)
\* the fields of a CandidateResult that come from its MatchResult
SameCandidate(result, match) ==
    /\ result.name = match.resume.name
    /\ result.overall_score = match.overall_score
    /\ result.skills_score = match.skills_score
    /\ result.experience_score = match.experience_score
    /\ result.education_score = match.education_score
    /\ result.matched_skills = match.matched_skills
    /\ result.skill_gaps = match.skill_gaps
    /\ result.strengths = match.strengths

Bijections(n) == {f \in [1..n -> 1..n] : \A i, j \in 1..n : f[i] = f[j] => i = j}

\* C4: rank_candidates returns a permutation of its input, sorted descending
\* by (overall_score, number of matched skills), the result at position i
\* (0-based) carrying rank i+1; of two candidates with the same overall score
\* the one with more matched skills has the strictly smaller rank; an empty
\* input gives an empty output.
C4_RankingOrder ==
    ranked # None =>
        LET out == ranked[1]
            n == Len(rankInput)
        IN /\ Len(out) = n
           /\ \E f \in Bijections(n) :
                 \A i \in 1..n : SameCandidate(out[i], rankInput[f[i]])
           /\ \A i \in 1..n : out[i].rank = i
           /\ \A i, j \in 1..n :
                 i < j =>
                    \/ RatLt(out[j].overall_score, out[i].overall_score)
                    \/ /\ out[j].overall_score = out[i].overall_score
                       /\ Len(out[j].matched_skills) <= Len(out[i].matched_skills)
           /\ \A i, j \in 1..n :
                 (/\ out[i].overall_score = out[j].overall_score
                  /\ Len(out[i].matched_skills) > Len(out[j].matched_skills))
                 => out[i].rank < out[j].rank

\* three candidates ranked, the first two with the same overall score and the
\* one with fewer matched skills first in the input
C4_Witness ==
    /\ ranked # None
    /\ Len(rankInput) = 3
    /\ rankInput[1].overall_score = rankInput[2].overall_score
    /\ Len(rankInput[1].matched_skills) < Len(rankInput[2].matched_skills)
    /\ RatLt(rankInput[2].overall_score, rankInput[3].overall_score)
    /\ ranked[1][1].name = rankInput[3].resume.name

\* C5: every CandidateResult of rank_candidates has a non-empty name, a rank
\* >= 1 and a non-empty explanation, whatever the flag and whatever the
\* external generator returns or raises.
C5_ResultCompleteness ==
    ranked # None =>
        \A i \in 1..Len(ranked[1]) :
            /\ ranked[1][i].name # <<>>
            /\ ranked[1][i].rank >= 1
            /\ ranked[1][i].explanation # <<>>

(***************************************************************************)
(* Properties of the validation, checked under SpecValidator.              *)
(***************************************************************************)
\* the payload begins with the four bytes %PDF
HasSignature(bytes) ==
    /\ Len(bytes) >= 4
    /\ bytes[1] = "%" /\ bytes[2] = "P" /\ bytes[3] = "D" /\ bytes[4] = "F"

\* C17: validate_file_count(c) is valid iff 1 <= c <= 50; is_pdf(b) is true
\* iff b is non-empty and begins with %PDF; validate_pdf_files(files) is valid
\* iff the count of files is in 1..50 and every payload begins with %PDF, and
\* when only the signature check fails it reports the 1-based positions of the
\* payloads that fail it.
C17_BatchValidation ==
    /\ countValidation # None =>
          /\ countValidation[1].is_valid <=> (1 <= uploadCount /\ uploadCount <= 50)
          /\ countValidation[1].is_valid <=> (countValidation[1].error_message = None)
    /\ \A i \in 1..Len(upload) :
          is_pdf(upload[i]) <=> (upload[i] # <<>> /\ HasSignature(upload[i]))
    /\ pdfValidation # None =>
          LET n == Len(upload)
              failing == {i \in 1..n : ~HasSignature(upload[i])}
          IN /\ pdfValidation[1].is_valid <=>
                   (1 <= n /\ n <= 50 /\ failing = {})
             /\ pdfValidation[1].is_valid <=> (pdfValidation[1].error_message = None)
             /\ (1 <= n /\ n <= 50 /\ failing # {}) =>
                   LET message == pdfValidation[1].error_message[1]
                       listed == {k \in 1..n :
                                    \E j \in 1..Len(message) : message[j] = ToString(k)}
                   IN listed = failing

\* an upload of 50 payloads of which the second and the last fail the
\* signature check, and a count of 50
C17_Witness ==
    /\ pdfValidation # None
    /\ countValidation # None
    /\ Len(upload) = 50
    /\ uploadCount = 50
    /\ countValidation[1].is_valid
    /\ ~pdfValidation[1].is_valid
    /\ upload[1] = PdfPayload
    /\ upload[2] = <<" ", "%", "P", "D", "F">>
    /\ upload[50] = <<>>

(***************************************************************************)
(* Properties of the Runner, checked under Spec.                           *)
(***************************************************************************)
Last(s) == s[Len(s)]

CallsOf(run, op) == {k \in 1..Len(run.calls) : run.calls[k].op = op}

\* the 1-based positions of the candidates whose extraction reported an error
FailedParses(run) ==
    {run.calls[k].arg : k \in {c \in CallsOf(run, "parse") : ~run.calls[c].ok}}

\* the 1-based positions, among the parsed resumes, of those whose matching raised
FailedMatches(run) ==
    {run.calls[k].arg : k \in {c \in CallsOf(run, "match") : ~run.calls[c].ok}}

MatchedOk(run) ==
    {run.calls[k].arg : k \in {c \in CallsOf(run, "match") : run.calls[c].ok}}

AnalysisFailed(run) == run.calls # <<>> /\ ~run.calls[1].ok

AnalysisSucceeded(run) == run.calls # <<>> /\ run.calls[1].ok

C7_AnalyzeFailure ==
    \A r \in DOMAIN runs :
        LET run == runs[r]
            N == Len(run.pdf_files)
        IN /\ (run.calls # <<>> /\ Strip(run.job_description) = <<>>)
                 => AnalysisFailed(run)
           /\ AnalysisFailed(run) =>
                 /\ run.calls[1].op = "analyze"
                 /\ Len(run.calls) = 1
                 /\ run.snapshots =
                       <<ProcessingStatus("Analyzer", 0, N, None, FALSE),
                         ProcessingStatus("Analyzer", 0, N, run.calls[1].error, FALSE)>>
                 /\ run.calls[1].error # None
                 /\ run.pc \in {"returned", "raised"}
                 /\ run.callback # "raising" => run.pc = "returned"
                 /\ run.pc = "returned" =>
                       run.retval[1] =
                          [results |-> <<>>,
                           error |-> Some(<<"Failed to analyze job description: ">>
                                          \o run.calls[1].error[1])]

\* a run over two candidates with a whitespace-only job description has returned
C7_Witness ==
    /\ runs # <<>>
    /\ runs[1].pc = "returned"
    /\ AnalysisFailed(runs[1])
    /\ runs[1].job_description # <<>>
    /\ Len(runs[1].pdf_files) = 2

\* the parsing loop is over and no candidate was parsed
NoneParsed(run) ==
    /\ AnalysisSucceeded(run)
    /\ run.pc # "parse"
    /\ Cardinality(CallsOf(run, "parse")) = Len(run.pdf_files)
    /\ Cardinality(FailedParses(run)) = Len(run.pdf_files)

\* C8: when requirement extraction succeeds and no candidate parses, the last
\* snapshot is a Parser snapshot with the error set, the run returns empty
\* results with the single error "No resumes could be parsed", which holds none
\* of the per-candidate errors collected, and no Matcher, Ranker or Complete
\* snapshot is emitted.
C8_NoneParsed ==
    \A r \in DOMAIN runs :
        LET run == runs[r]
            N == Len(run.pdf_files)
        IN NoneParsed(run) =>
              /\ Last(run.snapshots) =
                    ProcessingStatus("Parser", N, N,
                                     Some(<<"No resumes could be parsed">>), FALSE)
              /\ \A k \in 1..Len(run.snapshots) :
                    /\ run.snapshots[k].current_agent \in {"Analyzer", "Parser"}
                    /\ k < Len(run.snapshots) => run.snapshots[k].error_message = None
              /\ CallsOf(run, "match") = {} /\ CallsOf(run, "rank") = {}
              /\ run.pc \in {"returned", "raised"}
              /\ run.callback # "raising" => run.pc = "returned"
              /\ run.pc = "returned" =>
                    /\ run.retval[1] =
                          [results |-> <<>>,
                           error |-> Some(<<"No resumes could be parsed">>)]
                    /\ \A k \in 1..Len(run.errors) :
                          ~Contains(run.retval[1].error[1], run.errors[k])

\* a run over two candidates, both failing extraction, has returned
C8_Witness ==
    /\ runs # <<>>
    /\ runs[1].pc = "returned"
    /\ NoneParsed(runs[1])
    /\ Len(runs[1].errors) = 2

\* C9: a run that returns results from the ranking stage has, as its last
\* snapshot, one with stage "Complete", processed = total = the number of
\* returned results, is_complete = true and no error, also when candidates
\* failed; get_status() then returns that snapshot.
C9_CompleteSnapshot ==
    \A r \in DOMAIN runs :
        LET run == runs[r]
        IN (run.pc = "returned" /\ \E c \in CallsOf(run, "rank") : run.calls[c].ok) =>
              LET n == Len(run.retval[1].results)
              IN /\ Last(run.snapshots) = ProcessingStatus("Complete", n, n, None, TRUE)
                 /\ \A k \in 1..(Len(run.snapshots) - 1) :
                       run.snapshots[k].current_agent # "Complete"
                 /\ get_status(run.inst) = Some(Last(run.snapshots))
                 /\ get_status(run.inst)[1].is_complete = TRUE

\* a run over three candidates has returned one result: one candidate failed
\* extraction and one matching
C9_Witness ==
    /\ runs # <<>>
    /\ runs[1].pc = "returned"
    /\ Len(runs[1].pdf_files) = 3
    /\ Cardinality(FailedParses(runs[1])) = 1
    /\ Cardinality(FailedMatches(runs[1])) = 1
    /\ Len(runs[1].retval[1].results) = 1

\* C10: with a callback that does not raise, no run raises, whatever fails
\* (requirement extraction, extraction of any candidates, matching of any
\* parsed candidates, ranking).
C10_NeverRaises ==
    \A r \in DOMAIN runs :
        runs[r].callback # "raising" => runs[r].pc # "raised"

\* the run went through the Complete stage and returned
Completed(run) ==
    /\ run.pc = "returned"
    /\ \E c \in CallsOf(run, "rank") : run.calls[c].ok

\* the error reported by the call of op for the candidate at position k
ErrorOfCall(run, op, k) ==
    run.calls[CHOOSE c \in CallsOf(run, op) : run.calls[c].arg = k].error[1]

\* the entries expected of the Parser stage: one per failed input position,
\* ascending
ExpectedParseEntries(run) ==
    LET N == Len(run.pdf_files)
        ks == SelectIdx([k \in 1..N |-> k], FailedParses(run))
    IN [j \in 1..Len(ks) |->
           <<"Resume ", ToString(ks[j]), ": ">> \o ErrorOfCall(run, "parse", ks[j])]

\* the entries expected of the Matcher stage: one per parsed resume whose
\* matching raised, in the order of the parsed resumes
ExpectedMatchEntries(run) ==
    LET M == Len(run.parsed_resumes)
        ks == SelectIdx([k \in 1..M |-> k], FailedMatches(run))
    IN [j \in 1..Len(ks) |->
           <<"Matching ">> \o run.parsed_resumes[ks[j]].name \o <<": ">>
           \o ErrorOfCall(run, "match", ks[j])]

\* C11: when a run reaches completion, the returned error is the "; "-joined
\* list of the recorded errors, one per failed candidate: the Parser entries
\* "Resume k: <message>" in input order (k 1-based), then the Matcher entries
\* "Matching <name>: <message>"; it is None exactly when no candidate failed.
C11_ErrorSummary ==
    \A r \in DOMAIN runs :
        LET run == runs[r]
            expected == ExpectedParseEntries(run) \o ExpectedMatchEntries(run)
        IN Completed(run) =>
              /\ Len(expected) = Cardinality(FailedParses(run))
                                   + Cardinality(FailedMatches(run))
              /\ run.retval[1].error =
                    (IF expected = <<>> THEN None
                     ELSE Some(Join(expected, <<"; ">>)))
              /\ (run.retval[1].error = None) <=>
                    (FailedParses(run) = {} /\ FailedMatches(run) = {})

\* a completed run over three candidates: the first fails extraction, one of
\* the two parsed raises in matching, and both entries are in the error
C11_Witness ==
    /\ runs # <<>>
    /\ Completed(runs[1])
    /\ Len(runs[1].pdf_files) = 3
    /\ FailedParses(runs[1]) = {1}
    /\ FailedMatches(runs[1]) = {1}
    /\ runs[1].retval[1].error =
          Some(<<"Resume ", "1", ": ", "Empty PDF file", "; ",
                 "Matching ", "Bob", ": ", "'NoneType' object is not iterable">>)

\* the matching loop is over and no parsed resume was matched
NoneMatched(run) ==
    /\ AnalysisSucceeded(run)
    /\ run.pc \notin {"parse", "match"}
    /\ run.parsed_resumes # <<>>
    /\ Cardinality(CallsOf(run, "match")) = Len(run.parsed_resumes)
    /\ Cardinality(FailedMatches(run)) = Len(run.parsed_resumes)

\* one of the three fatal errors occurred
Fatal(run) == AnalysisFailed(run) \/ NoneParsed(run) \/ NoneMatched(run)

\* C12: a run returns empty results exactly when one of the three fatal
\* errors occurred (requirement extraction failed, no resume parsed, no
\* candidate matched) and then with a non-empty error; it returns non-empty
\* results only after the Complete stage; it never returns empty results
\* together with no error.
C12_FatalOrPartial ==
    \A r \in DOMAIN runs :
        LET run == runs[r]
        IN run.pc = "returned" =>
              LET results == run.retval[1].results
                  error == run.retval[1].error
              IN /\ (results = <<>>) <=> Fatal(run)
                 /\ results = <<>> =>
                       /\ error # None
                       /\ error[1] # <<>>
                       /\ \A k \in 1..Len(error[1]) : error[1][k] # ""
                 /\ results # <<>> =>
                       /\ Completed(run)
                       /\ Last(run.snapshots).current_agent = "Complete"
                       /\ Last(run.snapshots).is_complete
                 /\ ~(results = <<>> /\ error = None)

\* a run over two candidates, both parsed and both raising in matching, has
\* returned empty results with an error
C12_Witness ==
    /\ runs # <<>>
    /\ runs[1].pc = "returned"
    /\ Len(runs[1].pdf_files) = 2
    /\ NoneMatched(runs[1])
    /\ runs[1].retval[1].results = <<>>
    /\ runs[1].retval[1].error # None

\* the position of a stage in Analyzer, Parser, Matcher, Ranker, Complete
StageRank(agent) ==
    CASE agent = "Analyzer" -> 1
      [] agent = "Parser" -> 2
      [] agent = "Matcher" -> 3
      [] agent = "Ranker" -> 4
      [] agent = "Complete" -> 5
      [] OTHER -> 0

Stages(run) == {run.snapshots[k].current_agent : k \in 1..Len(run.snapshots)}

\* the run returned from the Complete stage and nothing failed on the way
FullySuccessful(run) ==
    /\ Completed(run)
    /\ \A c \in 1..Len(run.calls) : run.calls[c].ok

\* C13: the stages of a run's snapshots follow the order Analyzer, Parser,
\* Matcher, Ranker, Complete: the first snapshot is (Analyzer, 0, N) and is
\* emitted before the requirement extractor is called; after a snapshot of a
\* later stage no snapshot of an earlier stage follows; a fully successful run
\* reports each of the five stages at least once.
C13_StageOrder ==
    \A r \in DOMAIN runs :
        LET run == runs[r]
            sn == run.snapshots
        IN /\ \A k \in 1..Len(sn) : StageRank(sn[k].current_agent) >= 1
           /\ \A j, k \in 1..Len(sn) :
                 j < k => StageRank(sn[j].current_agent)
                             <= StageRank(sn[k].current_agent)
           /\ sn # <<>> =>
                 sn[1] = [current_agent |-> "Analyzer", processed_count |-> 0,
                          total_count |-> Len(run.pdf_files),
                          is_complete |-> FALSE, error_message |-> None]
           /\ run.calls # <<>> => (sn # <<>> /\ run.calls[1].op = "analyze")
           /\ run.pc = "analyze" => (run.calls = <<>> /\ Len(sn) = 1)
           /\ FullySuccessful(run) =>
                 Stages(run) = {"Analyzer", "Parser", "Matcher", "Ranker", "Complete"}

\* a fully successful run over two candidates: one Analyzer, two Parser, two
\* Matcher, one Ranker and one Complete snapshot
C13_Witness ==
    /\ runs # <<>>
    /\ FullySuccessful(runs[1])
    /\ Len(runs[1].pdf_files) = 2
    /\ [k \in 1..Len(runs[1].snapshots) |-> runs[1].snapshots[k].current_agent]
          = <<"Analyzer", "Parser", "Parser", "Matcher", "Matcher", "Ranker",
              "Complete">>

\* the first ranking call raised and the except branch has run
RankingRaised(run) ==
    /\ \E c \in CallsOf(run, "rank") : run.calls[c].arg = 1 /\ ~run.calls[c].ok
    /\ run.pc # "rank_fallback"

\* C18: if the ranking call raises, the ranker is called exactly once more, on
\* the same matches with explanation generation off; that second call does
\* not raise, its result is returned after the Complete snapshot, and the
\* ranking failure is not in the returned error.
C18_RankingFallback ==
    \A r \in DOMAIN runs :
        LET run == runs[r]
            ranks == CallsOf(run, "rank")
        IN RankingRaised(run) =>
              /\ Cardinality(ranks) = 2
              /\ \E c \in ranks : run.calls[c].arg = 2 /\ run.calls[c].ok
              /\ run.callback # "raising" => run.pc \in {"complete", "returned"}
              /\ run.pc = "returned" =>
                    /\ run.retval[1].results = rank_candidates(run.matches, FALSE, <<>>)
                    /\ Last(run.snapshots).current_agent = "Complete"
                    /\ run.retval[1].error =
                          (IF run.errors = <<>> THEN None
                           ELSE Some(Join(run.errors, <<"; ">>)))
                    /\ \A k \in 1..Len(run.errors) :
                          ~Contains(run.errors[k], RankErrorMessage)

\* the matching loop of the run is over
MatchingOver(run) ==
    /\ AnalysisSucceeded(run)
    /\ run.parsed_resumes # <<>>
    /\ run.pc \in {"rank", "rank_fallback", "complete", "returned"}
       \/ CallsOf(run, "rank") # {}
       \/ NoneMatched(run)

\* C19: an exception raised while matching one candidate is caught and
\* recorded as "Matching <name>: <message>", the candidate is skipped and
\* matching goes on with the next parsed resume; if no match survives, the
\* run emits a terminal Matcher snapshot with the error and returns
\* ([], "No candidates could be matched") without entering the Ranker stage.
C19_MatcherStage ==
    \A r \in DOMAIN runs :
        LET run == runs[r]
            M == Len(run.parsed_resumes)
        IN /\ \A k \in FailedMatches(run) :
                 \E e \in 1..Len(run.errors) :
                    run.errors[e] = <<"Matching ">> \o run.parsed_resumes[k].name
                                    \o <<": ">> \o ErrorOfCall(run, "match", k)
           /\ Len(run.matches) = Cardinality(MatchedOk(run))
           /\ \A c, d \in CallsOf(run, "match") :
                 c < d => run.calls[c].arg < run.calls[d].arg
           /\ MatchingOver(run) =>
                 \A k \in 1..M :
                    Cardinality({c \in CallsOf(run, "match") :
                                    run.calls[c].arg = k}) = 1
           /\ NoneMatched(run) =>
                 /\ Last(run.snapshots) =
                       [current_agent |-> "Matcher", processed_count |-> M,
                        total_count |-> M, is_complete |-> FALSE,
                        error_message |-> Some(<<"No candidates could be matched">>)]
                 /\ CallsOf(run, "rank") = {}
                 /\ Stages(run) \subseteq {"Analyzer", "Parser", "Matcher"}
                 /\ run.pc \in {"returned", "raised"}
                 /\ run.callback # "raising" => run.pc = "returned"
                 /\ run.pc = "returned" =>
                       run.retval[1] =
                          [results |-> <<>>,
                           error |-> Some(<<"No candidates could be matched">>)]

\* two parsed resumes: matching the first raises, the second is matched and
\* is the one result returned
C19_Witness ==
    /\ runs # <<>>
    /\ runs[1].pc = "returned"
    /\ Len(runs[1].parsed_resumes) = 2
    /\ FailedMatches(runs[1]) = {1}
    /\ MatchedOk(runs[1]) = {2}
    /\ Len(runs[1].retval[1].results) = 1
    /\ runs[1].retval[1].error =
          Some(<<"Matching ", "Bob", ": ", "'NoneType' object is not iterable">>)

\* the snapshots of a stage that carry no error, in the order emitted
StageSnapshots(run, agent) ==
    SelectIdx(run.snapshots,
              {k \in 1..Len(run.snapshots) :
                  /\ run.snapshots[k].current_agent = agent
                  /\ run.snapshots[k].error_message = None})

\* the number of snapshots of a stage is the number of its calls, or one more
\* when the callback raised on the snapshot, before the call
OnePerCall(run, snaps, op) ==
    LET calls == Cardinality(CallsOf(run, op))
    IN /\ calls <= Len(snaps)
       /\ Len(snaps) <= calls + 1
       /\ run.pc # "raised" => Len(snaps) = calls

\* C20: for a run over N candidates of which M parse, one Parser snapshot is
\* emitted before each extraction, with processed = 0, 1, ..., N-1 and total =
\* N; one Matcher snapshot before each match, with processed = 0, 1, ..., M-1
\* and total = M; the Ranker snapshot has processed = 0 and total = the number
\* of matches; in every non-terminal snapshot 0 <= processed <= total.
C20_SnapshotCounters ==
    \A r \in DOMAIN runs :
        LET run == runs[r]
            N == Len(run.pdf_files)
            M == Len(run.parsed_resumes)
            parser == StageSnapshots(run, "Parser")
            matcher == StageSnapshots(run, "Matcher")
            ranker == StageSnapshots(run, "Ranker")
        IN /\ \A j \in 1..Len(parser) :
                 parser[j].processed_count = j - 1 /\ parser[j].total_count = N
           /\ OnePerCall(run, parser, "parse")
           /\ \A c \in CallsOf(run, "parse") :
                 Cardinality({d \in CallsOf(run, "parse") : d <= c}) = run.calls[c].arg
           /\ \A j \in 1..Len(matcher) :
                 matcher[j].processed_count = j - 1 /\ matcher[j].total_count = M
           /\ OnePerCall(run, matcher, "match")
           /\ matcher # <<>> => M = N - Cardinality(FailedParses(run))
           /\ MatchingOver(run) => Len(matcher) = M
           /\ Len(ranker) <= 1
           /\ (CallsOf(run, "rank") # {}) => Len(ranker) = 1
           /\ \A j \in 1..Len(ranker) :
                 /\ ranker[j].processed_count = 0
                 /\ ranker[j].total_count = Len(run.matches)
                 /\ ranker[j].total_count = Cardinality(MatchedOk(run))
           /\ \A k \in 1..Len(run.snapshots) :
                 /\ 0 <= run.snapshots[k].processed_count
                 /\ run.snapshots[k].processed_count <= run.snapshots[k].total_count

\* three candidates of which the second fails extraction: Parser snapshots
\* (0,3) (1,3) (2,3), Matcher snapshots (0,2) (1,2), Ranker snapshot (0,2)
C20_Witness ==
    /\ runs # <<>>
    /\ Len(runs[1].pdf_files) = 3
    /\ FailedParses(runs[1]) = {2}
    /\ [k \in 1..Len(runs[1].snapshots) |->
           <<runs[1].snapshots[k].current_agent,
             runs[1].snapshots[k].processed_count,
             runs[1].snapshots[k].total_count>>]
          = << <<"Analyzer", 0, 3>>, <<"Parser", 0, 3>>, <<"Parser", 1, 3>>,
               <<"Parser", 2, 3>>, <<"Matcher", 0, 2>>, <<"Matcher", 1, 2>>,
               <<"Ranker", 0, 2>> >>

\* what holds of a run whose callback raised
PropagatedToCaller(run) ==
    /\ run.callback = "raising"
    /\ run.pc = "raised"
    /\ run.retval = None
    /\ run.snapshots # <<>>

\* a run that raised does nothing more
NothingAfterRaise ==
    \A r \in DOMAIN runs :
        runs[r].pc = "raised" => runs'[r] = runs[r]

\* C22: an exception raised by the progress callback, at any snapshot of any
\* stage, is not caught: the run raises, returns no (results, error), and
\* makes no later collaborator call and emits no later snapshot.
C22_CallbackPropagates ==
    /\ [](\A r \in DOMAIN runs :
             runs[r].callback_raised => PropagatedToCaller(runs[r]))
    /\ [][NothingAfterRaise]_vars

\* the callback raised on the terminal Matcher snapshot of a run in which no
\* candidate was matched
C22_Witness ==
    /\ runs # <<>>
    /\ runs[1].callback_raised
    /\ runs[1].pc = "raised"
    /\ NoneMatched(runs[1])
    /\ Last(runs[1].snapshots).error_message # None

\* the run has ended by returning: by completion or by a fatal error
Ended(run) == run.pc = "returned"

\* C23 as stated: before any run get_status() returns nothing, during a run
\* it returns the most recently computed snapshot, and once the run has ended
\* the retained snapshot is discarded.
C23_StatusDiscarded ==
    \A r \in DOMAIN runs :
        LET run == runs[r]
        IN /\ run.snapshots = <<>> => get_status(run.inst) = None
           /\ (run.snapshots # <<>> /\ ~Ended(run)) =>
                 get_status(run.inst) = Some(Last(run.snapshots))
           /\ Ended(run) => get_status(run.inst) = None

\* C23 as amended: before any run get_status() returns nothing; from the
\* first snapshot on it returns the most recently computed snapshot, one
\* snapshot only, and it goes on returning the run's last snapshot after the
\* run has ended.
C23_StatusRetained ==
    \A r \in DOMAIN runs :
        LET run == runs[r]
        IN /\ run.snapshots = <<>> => get_status(run.inst) = None
           /\ run.snapshots # <<>> =>
                 /\ Len(get_status(run.inst)) = 1
                 /\ get_status(run.inst) = Some(Last(run.snapshots))
           /\ Ended(run) => get_status(run.inst) # None

\* a run that ended by the fatal error of the Parser stage: get_status()
\* still returns its terminal snapshot
C23_Witness ==
    /\ runs # <<>>
    /\ Ended(runs[1])
    /\ NoneParsed(runs[1])
    /\ Len(runs[1].snapshots) >= 3
    /\ get_status(1) # None
    /\ get_status(1)[1].error_message = Some(<<"No resumes could be parsed">>)

\* the template sentences about a ranked candidate, each with the space that
\* joins it to the sentence before it
RankedSentence(res) ==
    <<"Ranked #", ToString(res.rank), " with ", Format1f(res.overall_score),
      "% match.">>

HasSentence(res) ==
    IF Len(res.matched_skills) > 0
    THEN <<" ", "Has ", ToString(Len(res.matched_skills)), " matching skills.">>
    ELSE <<>>

MissingSentence(res) ==
    IF Len(res.skill_gaps) > 0
    THEN <<" ", "Missing ", ToString(Len(res.skill_gaps)), " required skills.">>
    ELSE <<>>

StrengthsSentence(res) ==
    IF Len(res.strengths) = 0 THEN <<>>
    ELSE IF Len(res.strengths) = 1
         THEN <<" ", "Strengths: ">> \o res.strengths[1] \o <<".">>
    ELSE <<" ", "Strengths: ">> \o res.strengths[1] \o <<", ">>
         \o res.strengths[2] \o <<".">>

Template(res) ==
    RankedSentence(res) \o HasSentence(res) \o MissingSentence(res)
    \o StrengthsSentence(res)

\* C24: with explanation generation off, and with it on when the generator
\* fails, a candidate's explanation is exactly the template: the rank and
\* score sentence, then the matching-skills, missing-skills and strengths
\* sentences, each iff its list is non-empty, joined by single spaces in this
\* order; rank_candidates returns a result per candidate whatever the
\* generator did.
C24_TemplateExplanation ==
    ranked # None =>
        /\ Len(ranked[1]) = Len(rankInput)
        /\ \A k \in 1..Len(ranked[1]) :
              (~rankFlag \/ rankGen[k].kind = "raises") =>
                  ranked[1][k].explanation = Template(ranked[1][k])

\* generation on, the generator fails for a second-ranked candidate with
\* three strengths, one matched skill and one gap, and answers for the first
C24_Witness ==
    /\ ranked # None
    /\ rankFlag
    /\ Len(ranked[1]) = 2
    /\ rankGen[1].kind = "text"
    /\ rankGen[2].kind = "raises"
    /\ Len(ranked[1][2].strengths) = 3
    /\ Len(ranked[1][2].matched_skills) = 1
    /\ Len(ranked[1][2].skill_gaps) = 1
    /\ ranked[1][2].explanation =
          <<"Ranked #", "2", " with ", "50.0", "% match.", " ",
            "Has ", "1", " matching skills.", " ",
            "Missing ", "1", " required skills.", " ",
            "Strengths: ", "Has ", "1", " of ", "2", " required skills", ", ",
            "Exceeds experience requirement (", "2.5", " years)", ".">>

\* the result res is the one made from the match m
ResultOf(res, m) ==
    /\ res.name = m.resume.name
    /\ res.overall_score = m.overall_score
    /\ res.matched_skills = m.matched_skills
    /\ res.skill_gaps = m.skill_gaps
    /\ res.strengths = m.strengths

\* the candidates of items (matches or results) that tie exactly with x:
\* equal overall_score, equally many matched skills; in the order of items
TiedWith(items, x) ==
    SelectIdx(items,
              {i \in 1..Len(items) :
                  /\ items[i].overall_score = x.overall_score
                  /\ Len(items[i].matched_skills) = Len(x.matched_skills)})

\* C25: the candidates that tie exactly (equal overall_score, equally many
\* matched skills) appear in the ranked output in the relative order they
\* have in the input list.
C25_StableRanking ==
    ranked # None =>
        /\ Len(ranked[1]) = Len(rankInput)
        /\ \A n \in 1..Len(rankInput) :
              LET tiedIn == TiedWith(rankInput, rankInput[n])
                  tiedOut == TiedWith(ranked[1], rankInput[n])
              IN /\ Len(tiedOut) = Len(tiedIn)
                 /\ \A k \in 1..Len(tiedIn) : ResultOf(tiedOut[k], tiedIn[k])

\* Bob, Ann, Bob tie exactly and come out as Bob, Ann, Bob
C25_Witness ==
    /\ ranked # None
    /\ Len(rankInput) = 3
    /\ Len(TiedWith(rankInput, rankInput[1])) = 3
    /\ rankInput[1].resume.name = <<"Bob">>
    /\ rankInput[2].resume.name = <<"Ann">>
    /\ rankInput[3].resume.name = <<"Bob">>
    /\ ranked[1][1].name = <<"Bob">>
    /\ ranked[1][2].name = <<"Ann">>
    /\ ranked[1][3].name = <<"Bob">>

\* the required entry has a resume skill of the same normalized form
HasMatch(required_skill) ==
    \E j \in 1..Len(resume.skills) :
        Normalize(resume.skills[j]) = Normalize(required_skill)

\* how many of the first n required entries have a match
MatchesUpTo(n) ==
    Cardinality({i \in 1..n : HasMatch(requirements.required_skills[i])})

\* C26: going through required_skills in the order listed, every entry with
\* a normalized match in the resume adds one element to matched_skills, a
\* resume skill as the resume writes it, and every other entry is added to
\* skill_gaps as the requirements write it; the two lengths add up to
\* len(required_skills).
C26_MatchedAndGaps ==
    matchResult # None =>
        LET required == requirements.required_skills
            matched == matchResult[1].matched_skills
            gaps == matchResult[1].skill_gaps
        IN /\ Len(matched) = MatchesUpTo(Len(required))
           /\ Len(matched) + Len(gaps) = Len(required)
           /\ \A n \in 1..Len(required) :
                 IF HasMatch(required[n])
                 THEN /\ matched[MatchesUpTo(n)] \in Range(resume.skills)
                      /\ Normalize(matched[MatchesUpTo(n)]) = Normalize(required[n])
                 ELSE gaps[n - MatchesUpTo(n)] = required[n]

\* required ["Py", "SQL"] against resume ["sql", " py "]: the matched skills
\* come in required order and in the resume's writing
C26_Witness ==
    /\ matchResult # None
    /\ resume.skills = << <<"s", "q", "l">>, <<" ", "p", "y", " ">> >>
    /\ requirements.required_skills = << <<"P", "y">>, <<"S", "Q", "L">> >>
    /\ matchResult[1].matched_skills = << <<" ", "p", "y", " ">>, <<"s", "q", "l">> >>
    /\ matchResult[1].skill_gaps = <<>>

\* the calls of op among the first n calls of the run
CallsBefore(run, op, n) == {k \in CallsOf(run, op) : k < n}

\* the position of the step in a run
StepRank(op) ==
    CASE op = "analyze" -> 1
      [] op = "parse" -> 2
      [] op = "match" -> 3
      [] op = "rank" -> 4

\* the calls of op are made for the arguments 1, 2, 3, ... in this order
InInputOrder(run, op) ==
    \A k \in CallsOf(run, op) :
        run.calls[k].arg = Cardinality(CallsBefore(run, op, k)) + 1

\* C27: in a run the requirement extractor is called at most once, before
\* anything else, and exactly once in a run that returned; the resume
\* extractor is called only after it succeeded, once per candidate in input
\* order, also behind failed candidates; the matcher is called only after all
\* N extractions, once per parsed resume in input order; the ranker is called
\* only after the matcher was called for every parsed resume.
C27_CallOrder ==
    \A r \in DOMAIN runs :
        LET run == runs[r]
            N == Len(run.pdf_files)
            parsedOk == {k \in CallsOf(run, "parse") : run.calls[k].ok}
        IN /\ Cardinality(CallsOf(run, "analyze")) <= 1
           /\ Ended(run) => Cardinality(CallsOf(run, "analyze")) = 1
           /\ \A k, l \in 1..Len(run.calls) :
                 k < l => StepRank(run.calls[k].op) <= StepRank(run.calls[l].op)
           /\ CallsOf(run, "parse") # {} => AnalysisSucceeded(run)
           /\ InInputOrder(run, "parse")
           /\ Cardinality(CallsOf(run, "parse")) <= N
           /\ InInputOrder(run, "match")
           /\ \A k \in CallsOf(run, "match") :
                 /\ Cardinality(CallsBefore(run, "parse", k)) = N
                 /\ run.calls[k].arg <= Cardinality(parsedOk)
           /\ \A k \in CallsOf(run, "rank") :
                 /\ Cardinality(CallsBefore(run, "parse", k)) = N
                 /\ Cardinality(CallsBefore(run, "match", k)) = Cardinality(parsedOk)
           /\ (Ended(run) /\ AnalysisSucceeded(run)) =>
                 Cardinality(CallsOf(run, "parse")) = N
           /\ (Ended(run) /\ AnalysisSucceeded(run) /\ ~NoneParsed(run)) =>
                 Cardinality(CallsOf(run, "match")) = Cardinality(parsedOk)

\* a returned run over three candidates whose first extraction failed: three
\* extractions, then two matcher calls, then the ranking
C27_Witness ==
    /\ runs # <<>>
    /\ Ended(runs[1])
    /\ Len(runs[1].pdf_files) = 3
    /\ Len(runs[1].calls) >= 7
    /\ runs[1].calls[2].op = "parse" /\ ~runs[1].calls[2].ok
    /\ runs[1].calls[4].op = "parse" /\ runs[1].calls[4].arg = 3
    /\ runs[1].calls[5].op = "match" /\ runs[1].calls[5].arg = 1
    /\ runs[1].calls[6].op = "match" /\ runs[1].calls[6].arg = 2
    /\ runs[1].calls[7].op = "rank"

\* the messages of the three fatal errors of a run
FatalMessages(run) ==
    {NoResumesMessage(run), NoMatchesMessage(run)}
    \cup {run.calls[k].error[1] : k \in {c \in CallsOf(run, "analyze") : ~run.calls[c].ok}}

\* C30: a snapshot with is_complete = true is the Complete snapshot, the
\* last of its run and without an error, so there is at most one; a snapshot
\* with an error is the last of its run, has is_complete = false, belongs to a
\* run on one of the three fatal paths and carries that path's message; a
\* failure of a single candidate puts no error in any snapshot.
C30_SnapshotFlags ==
    \A r \in DOMAIN runs :
        LET run == runs[r]
            snaps == run.snapshots
        IN /\ \A k \in 1..Len(snaps) :
                 /\ snaps[k].is_complete =>
                       /\ k = Len(snaps)
                       /\ snaps[k].current_agent = "Complete"
                       /\ snaps[k].error_message = None
                 /\ snaps[k].error_message # None =>
                       /\ k = Len(snaps)
                       /\ ~snaps[k].is_complete
                       /\ Fatal(run)
                       /\ snaps[k].error_message[1] \in FatalMessages(run)
           /\ Cardinality({k \in 1..Len(snaps) : snaps[k].is_complete}) <= 1
           /\ ~Fatal(run) =>
                 \A k \in 1..Len(snaps) : snaps[k].error_message = None

\* one candidate failed in extraction and the other in matching: the run
\* ended on the fatal path of the Matcher, and only its last snapshot has an
\* error
C30_Witness ==
    /\ runs # <<>>
    /\ Ended(runs[1])
    /\ Cardinality(FailedParses(runs[1])) = 1
    /\ NoneMatched(runs[1])
    /\ Len(runs[1].errors) = 2
    /\ Len(runs[1].snapshots) = 5
    /\ \A k \in 1..4 : runs[1].snapshots[k].error_message = None
    /\ runs[1].snapshots[5].error_message = Some(<<"No candidates could be matched">>)
    /\ ~runs[1].snapshots[5].is_complete

\* the two runs are not in flight together on one runner
Undisturbed ==
    runs[2].after = 1 \/ runs[1].inst # runs[2].inst

\* what the collaborators answered in the run: to each call, and with which
\* requirements, resumes and ranked list
CollaboratorOutcomes(run) ==
    <<run.calls, run.job_requirements, run.parsed_resumes, run.results>>

ExpectedReturn(run) ==
    IF AnalysisFailed(run)
    THEN [results |-> <<>>,
          error |-> Some(<<"Failed to analyze job description: ">>
                         \o run.calls[1].error[1])]
    ELSE IF NoneParsed(run)
    THEN [results |-> <<>>, error |-> Some(<<"No resumes could be parsed">>)]
    ELSE IF NoneMatched(run)
    THEN [results |-> <<>>, error |-> Some(<<"No candidates could be matched">>)]
    ELSE [results |-> run.results,
          error |-> LET expected == ExpectedParseEntries(run)
                                    \o ExpectedMatchEntries(run)
                    IN IF expected = <<>> THEN None
                       ELSE Some(Join(expected, <<"; ">>))]

\* the snapshots the run has emitted are the statuses it assigned itself; when
\* it has assigned one and not yet read it back, all but that one
EmitsItsOwn(run) ==
    run.snapshots = IF run.wrote THEN SubSeq(run.written, 1, Len(run.written) - 1)
                    ELSE run.written

\* a step leaves the record of every run that does not take it as it is
OneRunPerStep ==
    \A r, o \in DOMAIN runs : (r # o /\ runs'[r] # runs[r]) => runs'[o] = runs[o]

\* a step of a run leaves the retained status of the other runners as it is
OwnStatusOnly ==
    \A r \in DOMAIN runs :
        runs'[r] # runs[r] =>
            \A inst \in DOMAIN status :
                inst # runs[r].inst => status'[inst] = status[inst]

\* C28: of two runs on two runners, under every interleaving, each emits the
\* statuses it assigned itself, its runner retains the last of them, and it
\* returns what its own calls lead to; no step of one changes the record of
\* the other or the status the other's runner retains.
C28_DistinctInstances ==
    /\ [](\A r \in DOMAIN runs :
             (Len(runs) = 2 /\ runs[1].inst # runs[2].inst) =>
                 /\ EmitsItsOwn(runs[r])
                 /\ get_status(runs[r].inst) =
                       (IF runs[r].written = <<>> THEN None
                        ELSE Some(Last(runs[r].written)))
                 /\ Ended(runs[r]) => runs[r].retval = Some(ExpectedReturn(runs[r])))
    /\ [][OneRunPerStep /\ OwnStatusOnly]_vars

\* two runs in flight together on two runners, each between the assignment
\* of a status and its reading back, one in ranking and the other in parsing
C28_Witness ==
    /\ Len(runs) = 2
    /\ runs[1].inst # runs[2].inst
    /\ runs[2].after = 0
    /\ runs[1].wrote /\ runs[2].wrote
    /\ runs[1].pc = "rank" /\ runs[2].pc = "parse"
    /\ get_status(1) = Some(RankerStatus(runs[1]))
    /\ get_status(2) = Some(ParserStatus(runs[2], 1))

\* the two runs are in flight together, or were, on one runner
SharedRunner ==
    Len(runs) = 2 /\ runs[1].inst = runs[2].inst /\ runs[2].after = 0

\* C29: of two runs interleaved on one runner, each returns what its own
\* calls lead to, its parsed resumes, matches and recorded errors are those of
\* its own calls, and no step of one changes the record of the other; what a
\* run emits is a status assigned by one of the two runs.
C29_SharedInstance ==
    /\ [](SharedRunner =>
             \A r \in DOMAIN runs :
                 LET run == runs[r]
                 IN /\ Ended(run) => run.retval = Some(ExpectedReturn(run))
                    /\ Len(run.parsed_resumes) =
                          Cardinality(CallsOf(run, "parse")) - Cardinality(FailedParses(run))
                    /\ Len(run.matches) = Cardinality(MatchedOk(run))
                    /\ run.errors = ExpectedParseEntries(run) \o ExpectedMatchEntries(run)
                    /\ \A k \in 1..Len(run.snapshots) :
                          run.snapshots[k] \in Range(runs[1].written)
                                                  \cup Range(runs[2].written))
    /\ [][OneRunPerStep]_vars

\* the first run completed and returned its candidate without an error,
\* although the callback was handed a status of the other run, which failed
C29_Witness ==
    /\ SharedRunner
    /\ Completed(runs[1])
    /\ Len(runs[1].retval[1].results) = 1
    /\ runs[1].retval[1].error = None
    /\ Ended(runs[2])
    /\ runs[2].retval[1].error = Some(<<"No resumes could be parsed">>)
    /\ ~EmitsItsOwn(runs[1])
    /\ \E k \in 1..Len(runs[1].snapshots) :
          runs[1].snapshots[k].error_message # None

====
